---- MODULE Spec2Model ----
(***************************************************************************)
(* Multi-agent orchestration and validation engine.                       *)
(*                                                                         *)
(*   - the LangGraph workflow planner -> portfolio_agent -> market_agent   *)
(*     -> validator (src/src/graph/workflow.py and src/src/nodes/);        *)
(*   - the validator tools (src/src/tools/validator_tools.py);             *)
(*   - the round-robin deliberation of six agents and the extraction of a  *)
(*     recommendation and a confidence from the final report               *)
(*     (src/src/workflows/trading_workflow.py).                            *)
(*                                                                         *)
(* Texts are sequences of pieces (TLA+ strings); Spell gives the           *)
(* characters of a piece, so substring and pattern tests are computed on   *)
(* the characters, as the Python code computes them.                       *)
(***************************************************************************)
EXTENDS Integers, Sequences, FiniteSets, TLC

\* ------------------------------------------------------------------------
\* Characters and strings
\* ------------------------------------------------------------------------

\* Spell table begin (one pair per string used in the model)
SpellPairs ==
  {
    <<"", <<>>>>,
    <<"\t", <<"\t">>>>,
    <<"\n", <<"\n">>>>,
    <<"\n\n---\n", <<"\n", "\n", "-", "-", "-", "\n">>>>,
    <<"\n\nAGENT WORKFLOW:\n1. OrganiserAgent: Get current market data for ", <<"\n", "\n", "A", "G", "E", "N", "T", " ", "W", "O", "R", "K", "F", "L", "O", "W", ":", "\n", "1", ".", " ", "O", "r", "g", "a", "n", "i", "s", "e", "r", "A", "g", "e", "n", "t", ":", " ", "G", "e", "t", " ", "c", "u", "r", "r", "e", "n", "t", " ", "m", "a", "r", "k", "e", "t", " ", "d", "a", "t", "a", " ", "f", "o", "r", " ">>>>,
    <<"\n\nPORTFOLIO CONTEXT: User does NOT currently own ", <<"\n", "\n", "P", "O", "R", "T", "F", "O", "L", "I", "O", " ", "C", "O", "N", "T", "E", "X", "T", ":", " ", "U", "s", "e", "r", " ", "d", "o", "e", "s", " ", "N", "O", "T", " ", "c", "u", "r", "r", "e", "n", "t", "l", "y", " ", "o", "w", "n", " ">>>>,
    <<"\n2. RiskManager: Assess position risk\n3. DataAnalyst: Research fundamentals\n", <<"\n", "2", ".", " ", "R", "i", "s", "k", "M", "a", "n", "a", "g", "e", "r", ":", " ", "A", "s", "s", "e", "s", "s", " ", "p", "o", "s", "i", "t", "i", "o", "n", " ", "r", "i", "s", "k", "\n", "3", ".", " ", "D", "a", "t", "a", "A", "n", "a", "l", "y", "s", "t", ":", " ", "R", "e", "s", "e", "a", "r", "c", "h", " ", "f", "u", "n", "d", "a", "m", "e", "n", "t", "a", "l", "s", "\n">>>>,
    <<" ", <<" ">>>>,
    <<" \n\n\n\n", <<" ", "\n", "\n", "\n", "\n">>>>,
    <<" Missing data: ", <<" ", "M", "i", "s", "s", "i", "n", "g", " ", "d", "a", "t", "a", ":", " ">>>>,
    <<" done \n", <<" ", "d", "o", "n", "e", " ", "\n">>>>,
    <<" for ", <<" ", "f", "o", "r", " ">>>>,
    <<"%", <<"%">>>>,
    <<"'", <<"'">>>>,
    <<"' and '", <<"'", " ", "a", "n", "d", " ", "'">>>>,
    <<"'?", <<"'", "?">>>>,
    <<"'security_name'", <<"'", "s", "e", "c", "u", "r", "i", "t", "y", "_", "n", "a", "m", "e", "'">>>>,
    <<"*", <<"*">>>>,
    <<"**CONFIDENCE LEVEL:** 10/10\n", <<"*", "*", "C", "O", "N", "F", "I", "D", "E", "N", "C", "E", " ", "L", "E", "V", "E", "L", ":", "*", "*", " ", "1", "0", "/", "1", "0", "\n">>>>,
    <<"**RECOMMENDATION:** DON'T BUY - WAIT\n", <<"*", "*", "R", "E", "C", "O", "M", "M", "E", "N", "D", "A", "T", "I", "O", "N", ":", "*", "*", " ", "D", "O", "N", "'", "T", " ", "B", "U", "Y", " ", "-", " ", "W", "A", "I", "T", "\n">>>>,
    <<"**RECOMMENDATION:** STRONG BUY - MSFT\n**CONFIDENCE LEVEL:** 9/10", <<"*", "*", "R", "E", "C", "O", "M", "M", "E", "N", "D", "A", "T", "I", "O", "N", ":", "*", "*", " ", "S", "T", "R", "O", "N", "G", " ", "B", "U", "Y", " ", "-", " ", "M", "S", "F", "T", "\n", "*", "*", "C", "O", "N", "F", "I", "D", "E", "N", "C", "E", " ", "L", "E", "V", "E", "L", ":", "*", "*", " ", "9", "/", "1", "0">>>>,
    <<"+", <<"+">>>>,
    <<", ", <<",", " ">>>>,
    <<"-", <<"-">>>>,
    <<"- ", <<"-", " ">>>>,
    <<".", <<".">>>>,
    <<". Did you mean a different stock?", <<".", " ", "D", "i", "d", " ", "y", "o", "u", " ", "m", "e", "a", "n", " ", "a", " ", "d", "i", "f", "f", "e", "r", "e", "n", "t", " ", "s", "t", "o", "c", "k", "?">>>>,
    <<". This would be a NEW position.", <<".", " ", "T", "h", "i", "s", " ", "w", "o", "u", "l", "d", " ", "b", "e", " ", "a", " ", "N", "E", "W", " ", "p", "o", "s", "i", "t", "i", "o", "n", ".">>>>,
    <<". Would you like me to search for it?", <<".", " ", "W", "o", "u", "l", "d", " ", "y", "o", "u", " ", "l", "i", "k", "e", " ", "m", "e", " ", "t", "o", " ", "s", "e", "a", "r", "c", "h", " ", "f", "o", "r", " ", "i", "t", "?">>>>,
    <<"/10", <<"/", "1", "0">>>>,
    <<"0", <<"0">>>>,
    <<"1", <<"1">>>>,
    <<"2", <<"2">>>>,
    <<"3", <<"3">>>>,
    <<"4", <<"4">>>>,
    <<"4. QuantitativeAnalyst: Analyze technical signals\n", <<"4", ".", " ", "Q", "u", "a", "n", "t", "i", "t", "a", "t", "i", "v", "e", "A", "n", "a", "l", "y", "s", "t", ":", " ", "A", "n", "a", "l", "y", "z", "e", " ", "t", "e", "c", "h", "n", "i", "c", "a", "l", " ", "s", "i", "g", "n", "a", "l", "s", "\n">>>>,
    <<"5", <<"5">>>>,
    <<"5. StrategyDeveloper: Recommend strategy\n", <<"5", ".", " ", "S", "t", "r", "a", "t", "e", "g", "y", "D", "e", "v", "e", "l", "o", "p", "e", "r", ":", " ", "R", "e", "c", "o", "m", "m", "e", "n", "d", " ", "s", "t", "r", "a", "t", "e", "g", "y", "\n">>>>,
    <<"6", <<"6">>>>,
    <<"6. ReportAgent: Provide final recommendation\n\n", <<"6", ".", " ", "R", "e", "p", "o", "r", "t", "A", "g", "e", "n", "t", ":", " ", "P", "r", "o", "v", "i", "d", "e", " ", "f", "i", "n", "a", "l", " ", "r", "e", "c", "o", "m", "m", "e", "n", "d", "a", "t", "i", "o", "n", "\n", "\n">>>>,
    <<"7", <<"7">>>>,
    <<"8", <<"8">>>>,
    <<"9", <<"9">>>>,
    <<":", <<":">>>>,
    <<"A", <<"A">>>>,
    <<"AAPL", <<"A", "A", "P", "L">>>>,
    <<"AAPL is trading at $150.00 today.", <<"A", "A", "P", "L", " ", "i", "s", " ", "t", "r", "a", "d", "i", "n", "g", " ", "a", "t", " ", "$", "1", "5", "0", ".", "0", "0", " ", "t", "o", "d", "a", "y", ".">>>>,
    <<"AAPL is trading at $400.00 today.", <<"A", "A", "P", "L", " ", "i", "s", " ", "t", "r", "a", "d", "i", "n", "g", " ", "a", "t", " ", "$", "4", "0", "0", ".", "0", "0", " ", "t", "o", "d", "a", "y", ".">>>>,
    <<"ABOUT", <<"A", "B", "O", "U", "T">>>>,
    <<"ACCEPTING", <<"A", "C", "C", "E", "P", "T", "I", "N", "G">>>>,
    <<"ACCESS", <<"A", "C", "C", "E", "S", "S">>>>,
    <<"ACCUMULATE", <<"A", "C", "C", "U", "M", "U", "L", "A", "T", "E">>>>,
    <<"ACTUAL", <<"A", "C", "T", "U", "A", "L">>>>,
    <<"ADBE", <<"A", "D", "B", "E">>>>,
    <<"ADD", <<"A", "D", "D">>>>,
    <<"ADVICE", <<"A", "D", "V", "I", "C", "E">>>>,
    <<"AFTER", <<"A", "F", "T", "E", "R">>>>,
    <<"AGAIN", <<"A", "G", "A", "I", "N">>>>,
    <<"AGENT", <<"A", "G", "E", "N", "T">>>>,
    <<"ALL", <<"A", "L", "L">>>>,
    <<"ALLOCATION", <<"A", "L", "L", "O", "C", "A", "T", "I", "O", "N">>>>,
    <<"ALMOST", <<"A", "L", "M", "O", "S", "T">>>>,
    <<"ALPHABET", <<"A", "L", "P", "H", "A", "B", "E", "T">>>>,
    <<"ALPHABETICALLY", <<"A", "L", "P", "H", "A", "B", "E", "T", "I", "C", "A", "L", "L", "Y">>>>,
    <<"ALSO", <<"A", "L", "S", "O">>>>,
    <<"AM", <<"A", "M">>>>,
    <<"AMD", <<"A", "M", "D">>>>,
    <<"AMONG", <<"A", "M", "O", "N", "G">>>>,
    <<"AMZN", <<"A", "M", "Z", "N">>>>,
    <<"AN", <<"A", "N">>>>,
    <<"ANALYSIS", <<"A", "N", "A", "L", "Y", "S", "I", "S">>>>,
    <<"ANALYZE", <<"A", "N", "A", "L", "Y", "Z", "E">>>>,
    <<"AND", <<"A", "N", "D">>>>,
    <<"ANSWER", <<"A", "N", "S", "W", "E", "R">>>>,
    <<"ANSWER:", <<"A", "N", "S", "W", "E", "R", ":">>>>,
    <<"ANSWER: NO\nSome would buy.\n", <<"A", "N", "S", "W", "E", "R", ":", " ", "N", "O", "\n", "S", "o", "m", "e", " ", "w", "o", "u", "l", "d", " ", "b", "u", "y", ".", "\n">>>>,
    <<"ANSWER: NO\nconfidence is 7/10 overall", <<"A", "N", "S", "W", "E", "R", ":", " ", "N", "O", "\n", "c", "o", "n", "f", "i", "d", "e", "n", "c", "e", " ", "i", "s", " ", "7", "/", "1", "0", " ", "o", "v", "e", "r", "a", "l", "l">>>>,
    <<"ANSWERED", <<"A", "N", "S", "W", "E", "R", "E", "D">>>>,
    <<"ANY", <<"A", "N", "Y">>>>,
    <<"API", <<"A", "P", "I">>>>,
    <<"APICONNECTIONERROR", <<"A", "P", "I", "C", "O", "N", "N", "E", "C", "T", "I", "O", "N", "E", "R", "R", "O", "R">>>>,
    <<"APIConnectionError", <<"A", "P", "I", "C", "o", "n", "n", "e", "c", "t", "i", "o", "n", "E", "r", "r", "o", "r">>>>,
    <<"APPLE", <<"A", "P", "P", "L", "E">>>>,
    <<"ARE", <<"A", "R", "E">>>>,
    <<"ARGUMENT", <<"A", "R", "G", "U", "M", "E", "N", "T">>>>,
    <<"ARGUMENTS", <<"A", "R", "G", "U", "M", "E", "N", "T", "S">>>>,
    <<"AS", <<"A", "S">>>>,
    <<"ASSESS", <<"A", "S", "S", "E", "S", "S">>>>,
    <<"ASSET", <<"A", "S", "S", "E", "T">>>>,
    <<"ASSETS", <<"A", "S", "S", "E", "T", "S">>>>,
    <<"ASSISTANT", <<"A", "S", "S", "I", "S", "T", "A", "N", "T">>>>,
    <<"AT", <<"A", "T">>>>,
    <<"AVAILABLE", <<"A", "V", "A", "I", "L", "A", "B", "L", "E">>>>,
    <<"AVOID", <<"A", "V", "O", "I", "D">>>>,
    <<"Accumulate", <<"A", "c", "c", "u", "m", "u", "l", "a", "t", "e">>>>,
    <<"Alphabet", <<"A", "l", "p", "h", "a", "b", "e", "t">>>>,
    <<"Alphabet Inc.", <<"A", "l", "p", "h", "a", "b", "e", "t", " ", "I", "n", "c", ".">>>>,
    <<"An", <<"A", "n">>>>,
    <<"An error occurred while processing your query: ", <<"A", "n", " ", "e", "r", "r", "o", "r", " ", "o", "c", "c", "u", "r", "r", "e", "d", " ", "w", "h", "i", "l", "e", " ", "p", "r", "o", "c", "e", "s", "s", "i", "n", "g", " ", "y", "o", "u", "r", " ", "q", "u", "e", "r", "y", ":", " ">>>>,
    <<"Analysis", <<"A", "n", "a", "l", "y", "s", "i", "s">>>>,
    <<"Analysis completed", <<"A", "n", "a", "l", "y", "s", "i", "s", " ", "c", "o", "m", "p", "l", "e", "t", "e", "d">>>>,
    <<"Analysis ready. MARKET_DATA_COMPLETE", <<"A", "n", "a", "l", "y", "s", "i", "s", " ", "r", "e", "a", "d", "y", ".", " ", "M", "A", "R", "K", "E", "T", "_", "D", "A", "T", "A", "_", "C", "O", "M", "P", "L", "E", "T", "E">>>>,
    <<"Analysis: see the decisions below.\n", <<"A", "n", "a", "l", "y", "s", "i", "s", ":", " ", "s", "e", "e", " ", "t", "h", "e", " ", "d", "e", "c", "i", "s", "i", "o", "n", "s", " ", "b", "e", "l", "o", "w", ".", "\n">>>>,
    <<"Analyze", <<"A", "n", "a", "l", "y", "z", "e">>>>,
    <<"Apple", <<"A", "p", "p", "l", "e">>>>,
    <<"Apple Inc.", <<"A", "p", "p", "l", "e", " ", "I", "n", "c", ".">>>>,
    <<"Assess", <<"A", "s", "s", "e", "s", "s">>>>,
    <<"B", <<"B">>>>,
    <<"BACK", <<"B", "A", "C", "K">>>>,
    <<"BACKEND", <<"B", "A", "C", "K", "E", "N", "D">>>>,
    <<"BAD", <<"B", "A", "D">>>>,
    <<"BAG", <<"B", "A", "G">>>>,
    <<"BE", <<"B", "E">>>>,
    <<"BED", <<"B", "E", "D">>>>,
    <<"BEEN", <<"B", "E", "E", "N">>>>,
    <<"BEING", <<"B", "E", "I", "N", "G">>>>,
    <<"BELOW", <<"B", "E", "L", "O", "W">>>>,
    <<"BEST", <<"B", "E", "S", "T">>>>,
    <<"BETTER", <<"B", "E", "T", "T", "E", "R">>>>,
    <<"BIG", <<"B", "I", "G">>>>,
    <<"BIGGEST", <<"B", "I", "G", "G", "E", "S", "T">>>>,
    <<"BND", <<"B", "N", "D">>>>,
    <<"BOND", <<"B", "O", "N", "D">>>>,
    <<"BONDS", <<"B", "O", "N", "D", "S">>>>,
    <<"BOTH", <<"B", "O", "T", "H">>>>,
    <<"BOX", <<"B", "O", "X">>>>,
    <<"BOY", <<"B", "O", "Y">>>>,
    <<"BUG", <<"B", "U", "G">>>>,
    <<"BUG: check", <<"B", "U", "G", ":", " ", "c", "h", "e", "c", "k">>>>,
    <<"BUT", <<"B", "U", "T">>>>,
    <<"BUY", <<"B", "U", "Y">>>>,
    <<"BUYING", <<"B", "U", "Y", "I", "N", "G">>>>,
    <<"BY", <<"B", "Y">>>>,
    <<"Best", <<"B", "e", "s", "t">>>>,
    <<"Best by what metric? (highest return, highest value, lowest risk?)", <<"B", "e", "s", "t", " ", "b", "y", " ", "w", "h", "a", "t", " ", "m", "e", "t", "r", "i", "c", "?", " ", "(", "h", "i", "g", "h", "e", "s", "t", " ", "r", "e", "t", "u", "r", "n", ",", " ", "h", "i", "g", "h", "e", "s", "t", " ", "v", "a", "l", "u", "e", ",", " ", "l", "o", "w", "e", "s", "t", " ", "r", "i", "s", "k", "?", ")">>>>,
    <<"Better", <<"B", "e", "t", "t", "e", "r">>>>,
    <<"Better to avoid it.\n", <<"B", "e", "t", "t", "e", "r", " ", "t", "o", " ", "a", "v", "o", "i", "d", " ", "i", "t", ".", "\n">>>>,
    <<"C", <<"C">>>>,
    <<"CALL", <<"C", "A", "L", "L">>>>,
    <<"CAME", <<"C", "A", "M", "E">>>>,
    <<"CAN", <<"C", "A", "N">>>>,
    <<"CANNOT", <<"C", "A", "N", "N", "O", "T">>>>,
    <<"CAR", <<"C", "A", "R">>>>,
    <<"CASE", <<"C", "A", "S", "E">>>>,
    <<"CASH", <<"C", "A", "S", "H">>>>,
    <<"CHECK", <<"C", "H", "E", "C", "K">>>>,
    <<"CLARIFICATION", <<"C", "L", "A", "R", "I", "F", "I", "C", "A", "T", "I", "O", "N">>>>,
    <<"CLASS", <<"C", "L", "A", "S", "S">>>>,
    <<"CLEAN", <<"C", "L", "E", "A", "N">>>>,
    <<"CLIENT", <<"C", "L", "I", "E", "N", "T">>>>,
    <<"CLOSED", <<"C", "L", "O", "S", "E", "D">>>>,
    <<"CLT", <<"C", "L", "T">>>>,
    <<"CLT-001", <<"C", "L", "T", "-", "0", "0", "1">>>>,
    <<"CLT-999", <<"C", "L", "T", "-", "9", "9", "9">>>>,
    <<"COLLABORATION", <<"C", "O", "L", "L", "A", "B", "O", "R", "A", "T", "I", "O", "N">>>>,
    <<"COME", <<"C", "O", "M", "E">>>>,
    <<"COMPANIES", <<"C", "O", "M", "P", "A", "N", "I", "E", "S">>>>,
    <<"COMPARE", <<"C", "O", "M", "P", "A", "R", "E">>>>,
    <<"COMPARED", <<"C", "O", "M", "P", "A", "R", "E", "D">>>>,
    <<"COMPARING", <<"C", "O", "M", "P", "A", "R", "I", "N", "G">>>>,
    <<"COMPLETE", <<"C", "O", "M", "P", "L", "E", "T", "E">>>>,
    <<"COMPLETED", <<"C", "O", "M", "P", "L", "E", "T", "E", "D">>>>,
    <<"CONFIDENCE", <<"C", "O", "N", "F", "I", "D", "E", "N", "C", "E">>>>,
    <<"CONFIDENCE LEVEL: 8/10\n", <<"C", "O", "N", "F", "I", "D", "E", "N", "C", "E", " ", "L", "E", "V", "E", "L", ":", " ", "8", "/", "1", "0", "\n">>>>,
    <<"CONNECTION", <<"C", "O", "N", "N", "E", "C", "T", "I", "O", "N">>>>,
    <<"CONNECTIVITY", <<"C", "O", "N", "N", "E", "C", "T", "I", "V", "I", "T", "Y">>>>,
    <<"CONSIDER", <<"C", "O", "N", "S", "I", "D", "E", "R">>>>,
    <<"CONTAIN", <<"C", "O", "N", "T", "A", "I", "N">>>>,
    <<"CONTAINS", <<"C", "O", "N", "T", "A", "I", "N", "S">>>>,
    <<"CONTENT", <<"C", "O", "N", "T", "E", "N", "T">>>>,
    <<"CONTEXT", <<"C", "O", "N", "T", "E", "X", "T">>>>,
    <<"CONTRADICTORY", <<"C", "O", "N", "T", "R", "A", "D", "I", "C", "T", "O", "R", "Y">>>>,
    <<"CONVERSATION", <<"C", "O", "N", "V", "E", "R", "S", "A", "T", "I", "O", "N">>>>,
    <<"CORPORATION", <<"C", "O", "R", "P", "O", "R", "A", "T", "I", "O", "N">>>>,
    <<"COULD", <<"C", "O", "U", "L", "D">>>>,
    <<"CRITERION", <<"C", "R", "I", "T", "E", "R", "I", "O", "N">>>>,
    <<"CRM", <<"C", "R", "M">>>>,
    <<"CSCO", <<"C", "S", "C", "O">>>>,
    <<"CURRENT", <<"C", "U", "R", "R", "E", "N", "T">>>>,
    <<"CURRENTLY", <<"C", "U", "R", "R", "E", "N", "T", "L", "Y">>>>,
    <<"CUT", <<"C", "U", "T">>>>,
    <<"Compare", <<"C", "o", "m", "p", "a", "r", "e">>>>,
    <<"Compare ETF funds", <<"C", "o", "m", "p", "a", "r", "e", " ", "E", "T", "F", " ", "f", "u", "n", "d", "s">>>>,
    <<"Confidence", <<"C", "o", "n", "f", "i", "d", "e", "n", "c", "e">>>>,
    <<"Confidence: 150%\nWe recommend buying.", <<"C", "o", "n", "f", "i", "d", "e", "n", "c", "e", ":", " ", "1", "5", "0", "%", "\n", "W", "e", " ", "r", "e", "c", "o", "m", "m", "e", "n", "d", " ", "b", "u", "y", "i", "n", "g", ".">>>>,
    <<"Confidence: 85%\n", <<"C", "o", "n", "f", "i", "d", "e", "n", "c", "e", ":", " ", "8", "5", "%", "\n">>>>,
    <<"Connection", <<"C", "o", "n", "n", "e", "c", "t", "i", "o", "n">>>>,
    <<"Connection error.", <<"C", "o", "n", "n", "e", "c", "t", "i", "o", "n", " ", "e", "r", "r", "o", "r", ".">>>>,
    <<"Consider", <<"C", "o", "n", "s", "i", "d", "e", "r">>>>,
    <<"Consider NVDA and the ETF.", <<"C", "o", "n", "s", "i", "d", "e", "r", " ", "N", "V", "D", "A", " ", "a", "n", "d", " ", "t", "h", "e", " ", "E", "T", "F", ".">>>>,
    <<"Corporation", <<"C", "o", "r", "p", "o", "r", "a", "t", "i", "o", "n">>>>,
    <<"D", <<"D">>>>,
    <<"DATA", <<"D", "A", "T", "A">>>>,
    <<"DATAANALYST", <<"D", "A", "T", "A", "A", "N", "A", "L", "Y", "S", "T">>>>,
    <<"DATA_ANALYSIS_COMPLETE", <<"D", "A", "T", "A", "_", "A", "N", "A", "L", "Y", "S", "I", "S", "_", "C", "O", "M", "P", "L", "E", "T", "E">>>>,
    <<"DATE", <<"D", "A", "T", "E">>>>,
    <<"DAY", <<"D", "A", "Y">>>>,
    <<"DE", <<"D", "E">>>>,
    <<"DEBUG", <<"D", "E", "B", "U", "G">>>>,
    <<"DEBUG:", <<"D", "E", "B", "U", "G", ":">>>>,
    <<"DECISIONS", <<"D", "E", "C", "I", "S", "I", "O", "N", "S">>>>,
    <<"DECREASE", <<"D", "E", "C", "R", "E", "A", "S", "E">>>>,
    <<"DEMO", <<"D", "E", "M", "O">>>>,
    <<"DETECTED", <<"D", "E", "T", "E", "C", "T", "E", "D">>>>,
    <<"DEVELOPMENT", <<"D", "E", "V", "E", "L", "O", "P", "M", "E", "N", "T">>>>,
    <<"DID", <<"D", "I", "D">>>>,
    <<"DIFFERENT", <<"D", "I", "F", "F", "E", "R", "E", "N", "T">>>>,
    <<"DIS", <<"D", "I", "S">>>>,
    <<"DIVERSIFIED", <<"D", "I", "V", "E", "R", "S", "I", "F", "I", "E", "D">>>>,
    <<"DIVERSIFY", <<"D", "I", "V", "E", "R", "S", "I", "F", "Y">>>>,
    <<"DIVERSITY", <<"D", "I", "V", "E", "R", "S", "I", "T", "Y">>>>,
    <<"DO", <<"D", "O">>>>,
    <<"DO NOT BUY", <<"D", "O", " ", "N", "O", "T", " ", "B", "U", "Y">>>>,
    <<"DO NOT SELL", <<"D", "O", " ", "N", "O", "T", " ", "S", "E", "L", "L">>>>,
    <<"DOES", <<"D", "O", "E", "S">>>>,
    <<"DOESN", <<"D", "O", "E", "S", "N">>>>,
    <<"DOING", <<"D", "O", "I", "N", "G">>>>,
    <<"DON", <<"D", "O", "N">>>>,
    <<"DON'T BUY", <<"D", "O", "N", "'", "T", " ", "B", "U", "Y">>>>,
    <<"DON'T BUY this stock now.\n", <<"D", "O", "N", "'", "T", " ", "B", "U", "Y", " ", "t", "h", "i", "s", " ", "s", "t", "o", "c", "k", " ", "n", "o", "w", ".", "\n">>>>,
    <<"DON'T SELL", <<"D", "O", "N", "'", "T", " ", "S", "E", "L", "L">>>>,
    <<"DONE", <<"D", "O", "N", "E">>>>,
    <<"DONT", <<"D", "O", "N", "T">>>>,
    <<"DONT BUY", <<"D", "O", "N", "T", " ", "B", "U", "Y">>>>,
    <<"DONT SELL", <<"D", "O", "N", "T", " ", "S", "E", "L", "L">>>>,
    <<"DOWN", <<"D", "O", "W", "N">>>>,
    <<"Data", <<"D", "a", "t", "a">>>>,
    <<"DataAnalyst", <<"D", "a", "t", "a", "A", "n", "a", "l", "y", "s", "t">>>>,
    <<"Did", <<"D", "i", "d">>>>,
    <<"E", <<"E">>>>,
    <<"EACH", <<"E", "A", "C", "H">>>>,
    <<"EAT", <<"E", "A", "T">>>>,
    <<"EMPTY", <<"E", "M", "P", "T", "Y">>>>,
    <<"END", <<"E", "N", "D">>>>,
    <<"ENVIRONMENT", <<"E", "N", "V", "I", "R", "O", "N", "M", "E", "N", "T">>>>,
    <<"ERROR", <<"E", "R", "R", "O", "R">>>>,
    <<"ETF", <<"E", "T", "F">>>>,
    <<"ETFS", <<"E", "T", "F", "S">>>>,
    <<"EVEN", <<"E", "V", "E", "N">>>>,
    <<"EVERY", <<"E", "V", "E", "R", "Y">>>>,
    <<"EXECUTED", <<"E", "X", "E", "C", "U", "T", "E", "D">>>>,
    <<"Each", <<"E", "a", "c", "h">>>>,
    <<"Each agent should respond with their analysis. Start the analysis now.", <<"E", "a", "c", "h", " ", "a", "g", "e", "n", "t", " ", "s", "h", "o", "u", "l", "d", " ", "r", "e", "s", "p", "o", "n", "d", " ", "w", "i", "t", "h", " ", "t", "h", "e", "i", "r", " ", "a", "n", "a", "l", "y", "s", "i", "s", ".", " ", "S", "t", "a", "r", "t", " ", "t", "h", "e", " ", "a", "n", "a", "l", "y", "s", "i", "s", " ", "n", "o", "w", ".">>>>,
    <<"Error", <<"E", "r", "r", "o", "r">>>>,
    <<"Error fetching price", <<"E", "r", "r", "o", "r", " ", "f", "e", "t", "c", "h", "i", "n", "g", " ", "p", "r", "i", "c", "e">>>>,
    <<"Error processing query: ", <<"E", "r", "r", "o", "r", " ", "p", "r", "o", "c", "e", "s", "s", "i", "n", "g", " ", "q", "u", "e", "r", "y", ":", " ">>>>,
    <<"F", <<"F">>>>,
    <<"FACT", <<"F", "A", "C", "T">>>>,
    <<"FALSE", <<"F", "A", "L", "S", "E">>>>,
    <<"FAR", <<"F", "A", "R">>>>,
    <<"FAST", <<"F", "A", "S", "T">>>>,
    <<"FEEL", <<"F", "E", "E", "L">>>>,
    <<"FETCHING", <<"F", "E", "T", "C", "H", "I", "N", "G">>>>,
    <<"FEW", <<"F", "E", "W">>>>,
    <<"FINAL", <<"F", "I", "N", "A", "L">>>>,
    <<"FINAL_ANALYSIS_", <<"F", "I", "N", "A", "L", "_", "A", "N", "A", "L", "Y", "S", "I", "S", "_">>>>,
    <<"FINAL_ANALYSIS_COMPLETE", <<"F", "I", "N", "A", "L", "_", "A", "N", "A", "L", "Y", "S", "I", "S", "_", "C", "O", "M", "P", "L", "E", "T", "E">>>>,
    <<"FINAL_ANALYSIS_COMPLETE\n", <<"F", "I", "N", "A", "L", "_", "A", "N", "A", "L", "Y", "S", "I", "S", "_", "C", "O", "M", "P", "L", "E", "T", "E", "\n">>>>,
    <<"FIND", <<"F", "I", "N", "D">>>>,
    <<"FINDINGS", <<"F", "I", "N", "D", "I", "N", "G", "S">>>>,
    <<"FIRST", <<"F", "I", "R", "S", "T">>>>,
    <<"FOR", <<"F", "O", "R">>>>,
    <<"FOUND", <<"F", "O", "U", "N", "D">>>>,
    <<"FOUR", <<"F", "O", "U", "R">>>>,
    <<"FREE", <<"F", "R", "E", "E">>>>,
    <<"FROM", <<"F", "R", "O", "M">>>>,
    <<"FULL", <<"F", "U", "L", "L">>>>,
    <<"FUN", <<"F", "U", "N">>>>,
    <<"FUNCTIONCALL", <<"F", "U", "N", "C", "T", "I", "O", "N", "C", "A", "L", "L">>>>,
    <<"FUNCTIONEXECUTIONRESULT", <<"F", "U", "N", "C", "T", "I", "O", "N", "E", "X", "E", "C", "U", "T", "I", "O", "N", "R", "E", "S", "U", "L", "T">>>>,
    <<"FUND", <<"F", "U", "N", "D">>>>,
    <<"FUNDAMENTALS", <<"F", "U", "N", "D", "A", "M", "E", "N", "T", "A", "L", "S">>>>,
    <<"FUNDS", <<"F", "U", "N", "D", "S">>>>,
    <<"False", <<"F", "a", "l", "s", "e">>>>,
    <<"First", <<"F", "i", "r", "s", "t">>>>,
    <<"First in what order? (alphabetically, by value, by return?)", <<"F", "i", "r", "s", "t", " ", "i", "n", " ", "w", "h", "a", "t", " ", "o", "r", "d", "e", "r", "?", " ", "(", "a", "l", "p", "h", "a", "b", "e", "t", "i", "c", "a", "l", "l", "y", ",", " ", "b", "y", " ", "v", "a", "l", "u", "e", ",", " ", "b", "y", " ", "r", "e", "t", "u", "r", "n", "?", ")">>>>,
    <<"FunctionCall", <<"F", "u", "n", "c", "t", "i", "o", "n", "C", "a", "l", "l">>>>,
    <<"FunctionExecutionResult", <<"F", "u", "n", "c", "t", "i", "o", "n", "E", "x", "e", "c", "u", "t", "i", "o", "n", "R", "e", "s", "u", "l", "t">>>>,
    <<"G", <<"G">>>>,
    <<"GAIN", <<"G", "A", "I", "N">>>>,
    <<"GAINS", <<"G", "A", "I", "N", "S">>>>,
    <<"GAVE", <<"G", "A", "V", "E">>>>,
    <<"GET", <<"G", "E", "T">>>>,
    <<"GETS", <<"G", "E", "T", "S">>>>,
    <<"GIVE", <<"G", "I", "V", "E">>>>,
    <<"GIVEN", <<"G", "I", "V", "E", "N">>>>,
    <<"GO", <<"G", "O">>>>,
    <<"GOES", <<"G", "O", "E", "S">>>>,
    <<"GOING", <<"G", "O", "I", "N", "G">>>>,
    <<"GONE", <<"G", "O", "N", "E">>>>,
    <<"GOOD", <<"G", "O", "O", "D">>>>,
    <<"GOOG", <<"G", "O", "O", "G">>>>,
    <<"GOOGL", <<"G", "O", "O", "G", "L">>>>,
    <<"GOT", <<"G", "O", "T">>>>,
    <<"GREAT", <<"G", "R", "E", "A", "T">>>>,
    <<"GROUP", <<"G", "R", "O", "U", "P">>>>,
    <<"Get", <<"G", "e", "t">>>>,
    <<"H", <<"H">>>>,
    <<"HAD", <<"H", "A", "D">>>>,
    <<"HALF", <<"H", "A", "L", "F">>>>,
    <<"HAND", <<"H", "A", "N", "D">>>>,
    <<"HAS", <<"H", "A", "S">>>>,
    <<"HAVE", <<"H", "A", "V", "E">>>>,
    <<"HE", <<"H", "E">>>>,
    <<"HEAD", <<"H", "E", "A", "D">>>>,
    <<"HELLO", <<"H", "E", "L", "L", "O">>>>,
    <<"HELP", <<"H", "E", "L", "P">>>>,
    <<"HER", <<"H", "E", "R">>>>,
    <<"HERE", <<"H", "E", "R", "E">>>>,
    <<"HIGH", <<"H", "I", "G", "H">>>>,
    <<"HIGHEST", <<"H", "I", "G", "H", "E", "S", "T">>>>,
    <<"HIM", <<"H", "I", "M">>>>,
    <<"HIS", <<"H", "I", "S">>>>,
    <<"HISTORY", <<"H", "I", "S", "T", "O", "R", "Y">>>>,
    <<"HOLD", <<"H", "O", "L", "D">>>>,
    <<"HOLDING", <<"H", "O", "L", "D", "I", "N", "G">>>>,
    <<"HOLDINGS", <<"H", "O", "L", "D", "I", "N", "G", "S">>>>,
    <<"HOME", <<"H", "O", "M", "E">>>>,
    <<"HOT", <<"H", "O", "T">>>>,
    <<"HOW", <<"H", "O", "W">>>>,
    <<"Hold", <<"H", "o", "l", "d">>>>,
    <<"Hold.  ", <<"H", "o", "l", "d", ".", " ", " ">>>>,
    <<"How", <<"H", "o", "w">>>>,
    <<"How recent? (past week, month, quarter?)", <<"H", "o", "w", " ", "r", "e", "c", "e", "n", "t", "?", " ", "(", "p", "a", "s", "t", " ", "w", "e", "e", "k", ",", " ", "m", "o", "n", "t", "h", ",", " ", "q", "u", "a", "r", "t", "e", "r", "?", ")">>>>,
    <<"I", <<"I">>>>,
    <<"I cannot see", <<"I", " ", "c", "a", "n", "n", "o", "t", " ", "s", "e", "e">>>>,
    <<"I cannot see it and I don't have information, so I am unable to provide the gain or loss.", <<"I", " ", "c", "a", "n", "n", "o", "t", " ", "s", "e", "e", " ", "i", "t", " ", "a", "n", "d", " ", "I", " ", "d", "o", "n", "'", "t", " ", "h", "a", "v", "e", " ", "i", "n", "f", "o", "r", "m", "a", "t", "i", "o", "n", ",", " ", "s", "o", " ", "I", " ", "a", "m", " ", "u", "n", "a", "b", "l", "e", " ", "t", "o", " ", "p", "r", "o", "v", "i", "d", "e", " ", "t", "h", "e", " ", "g", "a", "i", "n", " ", "o", "r", " ", "l", "o", "s", "s", ".">>>>,
    <<"I don't have access", <<"I", " ", "d", "o", "n", "'", "t", " ", "h", "a", "v", "e", " ", "a", "c", "c", "e", "s", "s">>>>,
    <<"I don't have access to that data.", <<"I", " ", "d", "o", "n", "'", "t", " ", "h", "a", "v", "e", " ", "a", "c", "c", "e", "s", "s", " ", "t", "o", " ", "t", "h", "a", "t", " ", "d", "a", "t", "a", ".">>>>,
    <<"I don't have current market data. There may be a connectivity issue with market data sources.", <<"I", " ", "d", "o", "n", "'", "t", " ", "h", "a", "v", "e", " ", "c", "u", "r", "r", "e", "n", "t", " ", "m", "a", "r", "k", "e", "t", " ", "d", "a", "t", "a", ".", " ", "T", "h", "e", "r", "e", " ", "m", "a", "y", " ", "b", "e", " ", "a", " ", "c", "o", "n", "n", "e", "c", "t", "i", "v", "i", "t", "y", " ", "i", "s", "s", "u", "e", " ", "w", "i", "t", "h", " ", "m", "a", "r", "k", "e", "t", " ", "d", "a", "t", "a", " ", "s", "o", "u", "r", "c", "e", "s", ".">>>>,
    <<"I don't have information", <<"I", " ", "d", "o", "n", "'", "t", " ", "h", "a", "v", "e", " ", "i", "n", "f", "o", "r", "m", "a", "t", "i", "o", "n">>>>,
    <<"I don't have market data for ", <<"I", " ", "d", "o", "n", "'", "t", " ", "h", "a", "v", "e", " ", "m", "a", "r", "k", "e", "t", " ", "d", "a", "t", "a", " ", "f", "o", "r", " ">>>>,
    <<"I don't have your portfolio data loaded. Please check the client ID.", <<"I", " ", "d", "o", "n", "'", "t", " ", "h", "a", "v", "e", " ", "y", "o", "u", "r", " ", "p", "o", "r", "t", "f", "o", "l", "i", "o", " ", "d", "a", "t", "a", " ", "l", "o", "a", "d", "e", "d", ".", " ", "P", "l", "e", "a", "s", "e", " ", "c", "h", "e", "c", "k", " ", "t", "h", "e", " ", "c", "l", "i", "e", "n", "t", " ", "I", "D", ".">>>>,
    <<"I would hold, RECOMMENDATION: SELL\n", <<"I", " ", "w", "o", "u", "l", "d", " ", "h", "o", "l", "d", ",", " ", "R", "E", "C", "O", "M", "M", "E", "N", "D", "A", "T", "I", "O", "N", ":", " ", "S", "E", "L", "L", "\n">>>>,
    <<"I would sell this stock.", <<"I", " ", "w", "o", "u", "l", "d", " ", "s", "e", "l", "l", " ", "t", "h", "i", "s", " ", "s", "t", "o", "c", "k", ".">>>>,
    <<"IBM", <<"I", "B", "M">>>>,
    <<"ID", <<"I", "D">>>>,
    <<"IDLE", <<"I", "D", "L", "E">>>>,
    <<"IF", <<"I", "F">>>>,
    <<"IMPROVE", <<"I", "M", "P", "R", "O", "V", "E">>>>,
    <<"IN", <<"I", "N">>>>,
    <<"INC", <<"I", "N", "C">>>>,
    <<"INCREASE", <<"I", "N", "C", "R", "E", "A", "S", "E">>>>,
    <<"INFORMATION", <<"I", "N", "F", "O", "R", "M", "A", "T", "I", "O", "N">>>>,
    <<"INTC", <<"I", "N", "T", "C">>>>,
    <<"INTO", <<"I", "N", "T", "O">>>>,
    <<"INVOKED", <<"I", "N", "V", "O", "K", "E", "D">>>>,
    <<"IS", <<"I", "S">>>>,
    <<"ISSUE", <<"I", "S", "S", "U", "E">>>>,
    <<"ISSUES", <<"I", "S", "S", "U", "E", "S">>>>,
    <<"IT", <<"I", "T">>>>,
    <<"ITEMS", <<"I", "T", "E", "M", "S">>>>,
    <<"ITS", <<"I", "T", "S">>>>,
    <<"Inc", <<"I", "n", "c">>>>,
    <<"Is", <<"I", "s">>>>,
    <<"Is AAPL profitable?", <<"I", "s", " ", "A", "A", "P", "L", " ", "p", "r", "o", "f", "i", "t", "a", "b", "l", "e", "?">>>>,
    <<"Issues", <<"I", "s", "s", "u", "e", "s">>>>,
    <<"Issues detected: ", <<"I", "s", "s", "u", "e", "s", " ", "d", "e", "t", "e", "c", "t", "e", "d", ":", " ">>>>,
    <<"J", <<"J">>>>,
    <<"JUST", <<"J", "U", "S", "T">>>>,
    <<"K", <<"K">>>>,
    <<"KEEP", <<"K", "E", "E", "P">>>>,
    <<"KEY", <<"K", "E", "Y">>>>,
    <<"KEYERROR", <<"K", "E", "Y", "E", "R", "R", "O", "R">>>>,
    <<"KEYWORD", <<"K", "E", "Y", "W", "O", "R", "D">>>>,
    <<"KIND", <<"K", "I", "N", "D">>>>,
    <<"KNEW", <<"K", "N", "E", "W">>>>,
    <<"KNOW", <<"K", "N", "O", "W">>>>,
    <<"KeyError", <<"K", "e", "y", "E", "r", "r", "o", "r">>>>,
    <<"L", <<"L">>>>,
    <<"LACKS", <<"L", "A", "C", "K", "S">>>>,
    <<"LANGGRAPH", <<"L", "A", "N", "G", "G", "R", "A", "P", "H">>>>,
    <<"LARGE", <<"L", "A", "R", "G", "E">>>>,
    <<"LARGEST", <<"L", "A", "R", "G", "E", "S", "T">>>>,
    <<"LAST", <<"L", "A", "S", "T">>>>,
    <<"LATE", <<"L", "A", "T", "E">>>>,
    <<"LATELY", <<"L", "A", "T", "E", "L", "Y">>>>,
    <<"LATER", <<"L", "A", "T", "E", "R">>>>,
    <<"LAW", <<"L", "A", "W">>>>,
    <<"LAY", <<"L", "A", "Y">>>>,
    <<"LEAD", <<"L", "E", "A", "D">>>>,
    <<"LEAVE", <<"L", "E", "A", "V", "E">>>>,
    <<"LEFT", <<"L", "E", "F", "T">>>>,
    <<"LEG", <<"L", "E", "G">>>>,
    <<"LESS", <<"L", "E", "S", "S">>>>,
    <<"LET", <<"L", "E", "T">>>>,
    <<"LEVEL", <<"L", "E", "V", "E", "L">>>>,
    <<"LEVEL:", <<"L", "E", "V", "E", "L", ":">>>>,
    <<"LIE", <<"L", "I", "E">>>>,
    <<"LIFE", <<"L", "I", "F", "E">>>>,
    <<"LIKE", <<"L", "I", "K", "E">>>>,
    <<"LIMITATIONS", <<"L", "I", "M", "I", "T", "A", "T", "I", "O", "N", "S">>>>,
    <<"LINE", <<"L", "I", "N", "E">>>>,
    <<"LIST", <<"L", "I", "S", "T">>>>,
    <<"LIVE", <<"L", "I", "V", "E">>>>,
    <<"LOADED", <<"L", "O", "A", "D", "E", "D">>>>,
    <<"LONG", <<"L", "O", "N", "G">>>>,
    <<"LOOK", <<"L", "O", "O", "K">>>>,
    <<"LOOKS", <<"L", "O", "O", "K", "S">>>>,
    <<"LOOP", <<"L", "O", "O", "P">>>>,
    <<"LOSE", <<"L", "O", "S", "E">>>>,
    <<"LOSS", <<"L", "O", "S", "S">>>>,
    <<"LOSSES", <<"L", "O", "S", "S", "E", "S">>>>,
    <<"LOST", <<"L", "O", "S", "T">>>>,
    <<"LOT", <<"L", "O", "T">>>>,
    <<"LOW", <<"L", "O", "W">>>>,
    <<"LOWEST", <<"L", "O", "W", "E", "S", "T">>>>,
    <<"M", <<"M">>>>,
    <<"MADE", <<"M", "A", "D", "E">>>>,
    <<"MAIN", <<"M", "A", "I", "N">>>>,
    <<"MAKE", <<"M", "A", "K", "E">>>>,
    <<"MAN", <<"M", "A", "N">>>>,
    <<"MANY", <<"M", "A", "N", "Y">>>>,
    <<"MAP", <<"M", "A", "P">>>>,
    <<"MARKERS", <<"M", "A", "R", "K", "E", "R", "S">>>>,
    <<"MARKET", <<"M", "A", "R", "K", "E", "T">>>>,
    <<"MARKET_DATA_COMPLETE", <<"M", "A", "R", "K", "E", "T", "_", "D", "A", "T", "A", "_", "C", "O", "M", "P", "L", "E", "T", "E">>>>,
    <<"MAY", <<"M", "A", "Y">>>>,
    <<"ME", <<"M", "E">>>>,
    <<"MEAN", <<"M", "E", "A", "N">>>>,
    <<"MEET", <<"M", "E", "E", "T">>>>,
    <<"MENTIONS", <<"M", "E", "N", "T", "I", "O", "N", "S">>>>,
    <<"MESSAGE", <<"M", "E", "S", "S", "A", "G", "E">>>>,
    <<"MET", <<"M", "E", "T">>>>,
    <<"META", <<"M", "E", "T", "A">>>>,
    <<"METRIC", <<"M", "E", "T", "R", "I", "C">>>>,
    <<"MICROSOFT", <<"M", "I", "C", "R", "O", "S", "O", "F", "T">>>>,
    <<"MIGHT", <<"M", "I", "G", "H", "T">>>>,
    <<"MIND", <<"M", "I", "N", "D">>>>,
    <<"MISSING", <<"M", "I", "S", "S", "I", "N", "G">>>>,
    <<"MIX", <<"M", "I", "X">>>>,
    <<"MONTH", <<"M", "O", "N", "T", "H">>>>,
    <<"MORE", <<"M", "O", "R", "E">>>>,
    <<"MOST", <<"M", "O", "S", "T">>>>,
    <<"MOVE", <<"M", "O", "V", "E">>>>,
    <<"MSFT", <<"M", "S", "F", "T">>>>,
    <<"MUCH", <<"M", "U", "C", "H">>>>,
    <<"MUST", <<"M", "U", "S", "T">>>>,
    <<"MY", <<"M", "Y">>>>,
    <<"Market", <<"M", "a", "r", "k", "e", "t">>>>,
    <<"Market Data Needed: YES", <<"M", "a", "r", "k", "e", "t", " ", "D", "a", "t", "a", " ", "N", "e", "e", "d", "e", "d", ":", " ", "Y", "E", "S">>>>,
    <<"Market Data Needed: YES\n", <<"M", "a", "r", "k", "e", "t", " ", "D", "a", "t", "a", " ", "N", "e", "e", "d", "e", "d", ":", " ", "Y", "E", "S", "\n">>>>,
    <<"Market data not available", <<"M", "a", "r", "k", "e", "t", " ", "d", "a", "t", "a", " ", "n", "o", "t", " ", "a", "v", "a", "i", "l", "a", "b", "l", "e">>>>,
    <<"Mentions", <<"M", "e", "n", "t", "i", "o", "n", "s">>>>,
    <<"Mentions tickers not in available data: ", <<"M", "e", "n", "t", "i", "o", "n", "s", " ", "t", "i", "c", "k", "e", "r", "s", " ", "n", "o", "t", " ", "i", "n", " ", "a", "v", "a", "i", "l", "a", "b", "l", "e", " ", "d", "a", "t", "a", ":", " ">>>>,
    <<"Microsoft", <<"M", "i", "c", "r", "o", "s", "o", "f", "t">>>>,
    <<"Microsoft Corporation", <<"M", "i", "c", "r", "o", "s", "o", "f", "t", " ", "C", "o", "r", "p", "o", "r", "a", "t", "i", "o", "n">>>>,
    <<"Missing", <<"M", "i", "s", "s", "i", "n", "g">>>>,
    <<"Most", <<"M", "o", "s", "t">>>>,
    <<"Most in what sense? (shares, value, percentage?)", <<"M", "o", "s", "t", " ", "i", "n", " ", "w", "h", "a", "t", " ", "s", "e", "n", "s", "e", "?", " ", "(", "s", "h", "a", "r", "e", "s", ",", " ", "v", "a", "l", "u", "e", ",", " ", "p", "e", "r", "c", "e", "n", "t", "a", "g", "e", "?", ")">>>>,
    <<"My", <<"M", "y">>>>,
    <<"My confidence (12/10).\n", <<"M", "y", " ", "c", "o", "n", "f", "i", "d", "e", "n", "c", "e", " ", "(", "1", "2", "/", "1", "0", ")", ".", "\n">>>>,
    <<"My confidence (5%).\n", <<"M", "y", " ", "c", "o", "n", "f", "i", "d", "e", "n", "c", "e", " ", "(", "5", "%", ")", ".", "\n">>>>,
    <<"My confidence (7/10).\n", <<"M", "y", " ", "c", "o", "n", "f", "i", "d", "e", "n", "c", "e", " ", "(", "7", "/", "1", "0", ")", ".", "\n">>>>,
    <<"My confidence in this call: 3%", <<"M", "y", " ", "c", "o", "n", "f", "i", "d", "e", "n", "c", "e", " ", "i", "n", " ", "t", "h", "i", "s", " ", "c", "a", "l", "l", ":", " ", "3", "%">>>>,
    <<"N", <<"N">>>>,
    <<"NAME", <<"N", "A", "M", "E">>>>,
    <<"NEAR", <<"N", "E", "A", "R">>>>,
    <<"NEED", <<"N", "E", "E", "D">>>>,
    <<"NEEDED", <<"N", "E", "E", "D", "E", "D">>>>,
    <<"NEEDS", <<"N", "E", "E", "D", "S">>>>,
    <<"NEGATIVE", <<"N", "E", "G", "A", "T", "I", "V", "E">>>>,
    <<"NEVER", <<"N", "E", "V", "E", "R">>>>,
    <<"NEW", <<"N", "E", "W">>>>,
    <<"NEWS", <<"N", "E", "W", "S">>>>,
    <<"NEXT", <<"N", "E", "X", "T">>>>,
    <<"NFLX", <<"N", "F", "L", "X">>>>,
    <<"NO", <<"N", "O">>>>,
    <<"NONE", <<"N", "O", "N", "E">>>>,
    <<"NOR", <<"N", "O", "R">>>>,
    <<"NOT", <<"N", "O", "T">>>>,
    <<"NOTE", <<"N", "O", "T", "E">>>>,
    <<"NOTHING", <<"N", "O", "T", "H", "I", "N", "G">>>>,
    <<"NOW", <<"N", "O", "W">>>>,
    <<"NUMBER", <<"N", "U", "M", "B", "E", "R">>>>,
    <<"NUMERICAL", <<"N", "U", "M", "E", "R", "I", "C", "A", "L">>>>,
    <<"NVDA", <<"N", "V", "D", "A">>>>,
    <<"Needed", <<"N", "e", "e", "d", "e", "d">>>>,
    <<"No", <<"N", "o">>>>,
    <<"No holdings found in portfolio", <<"N", "o", " ", "h", "o", "l", "d", "i", "n", "g", "s", " ", "f", "o", "u", "n", "d", " ", "i", "n", " ", "p", "o", "r", "t", "f", "o", "l", "i", "o">>>>,
    <<"No number given.\n", <<"N", "o", " ", "n", "u", "m", "b", "e", "r", " ", "g", "i", "v", "e", "n", ".", "\n">>>>,
    <<"No portfolio found for client", <<"N", "o", " ", "p", "o", "r", "t", "f", "o", "l", "i", "o", " ", "f", "o", "u", "n", "d", " ", "f", "o", "r", " ", "c", "l", "i", "e", "n", "t">>>>,
    <<"Note", <<"N", "o", "t", "e">>>>,
    <<"Note: This response may have limitations. ", <<"N", "o", "t", "e", ":", " ", "T", "h", "i", "s", " ", "r", "e", "s", "p", "o", "n", "s", "e", " ", "m", "a", "y", " ", "h", "a", "v", "e", " ", "l", "i", "m", "i", "t", "a", "t", "i", "o", "n", "s", ".", " ">>>>,
    <<"Nothing", <<"N", "o", "t", "h", "i", "n", "g">>>>,
    <<"Nothing stands out.\n", <<"N", "o", "t", "h", "i", "n", "g", " ", "s", "t", "a", "n", "d", "s", " ", "o", "u", "t", ".", "\n">>>>,
    <<"Nothing to add.", <<"N", "o", "t", "h", "i", "n", "g", " ", "t", "o", " ", "a", "d", "d", ".">>>>,
    <<"O", <<"O">>>>,
    <<"OCCURRED", <<"O", "C", "C", "U", "R", "R", "E", "D">>>>,
    <<"ODD", <<"O", "D", "D">>>>,
    <<"OF", <<"O", "F">>>>,
    <<"OFF", <<"O", "F", "F">>>>,
    <<"OFFER", <<"O", "F", "F", "E", "R">>>>,
    <<"OIL", <<"O", "I", "L">>>>,
    <<"OK", <<"O", "K">>>>,
    <<"OLD", <<"O", "L", "D">>>>,
    <<"ON", <<"O", "N">>>>,
    <<"ONCE", <<"O", "N", "C", "E">>>>,
    <<"ONE", <<"O", "N", "E">>>>,
    <<"ONLY", <<"O", "N", "L", "Y">>>>,
    <<"OPEN", <<"O", "P", "E", "N">>>>,
    <<"OPENAI", <<"O", "P", "E", "N", "A", "I">>>>,
    <<"OPENAI_API_KEY not found in environment variables", <<"O", "P", "E", "N", "A", "I", "_", "A", "P", "I", "_", "K", "E", "Y", " ", "n", "o", "t", " ", "f", "o", "u", "n", "d", " ", "i", "n", " ", "e", "n", "v", "i", "r", "o", "n", "m", "e", "n", "t", " ", "v", "a", "r", "i", "a", "b", "l", "e", "s">>>>,
    <<"OPTIMIZE", <<"O", "P", "T", "I", "M", "I", "Z", "E">>>>,
    <<"OR", <<"O", "R">>>>,
    <<"ORCL", <<"O", "R", "C", "L">>>>,
    <<"ORDER", <<"O", "R", "D", "E", "R">>>>,
    <<"ORGANISERAGENT", <<"O", "R", "G", "A", "N", "I", "S", "E", "R", "A", "G", "E", "N", "T">>>>,
    <<"OTHER", <<"O", "T", "H", "E", "R">>>>,
    <<"OUR", <<"O", "U", "R">>>>,
    <<"OUT", <<"O", "U", "T">>>>,
    <<"OUTWEIGHS", <<"O", "U", "T", "W", "E", "I", "G", "H", "S">>>>,
    <<"OVER", <<"O", "V", "E", "R">>>>,
    <<"OVERALL", <<"O", "V", "E", "R", "A", "L", "L">>>>,
    <<"OWN", <<"O", "W", "N">>>>,
    <<"OWNS", <<"O", "W", "N", "S">>>>,
    <<"OrganiserAgent", <<"O", "r", "g", "a", "n", "i", "s", "e", "r", "A", "g", "e", "n", "t">>>>,
    <<"P", <<"P">>>>,
    <<"PART", <<"P", "A", "R", "T">>>>,
    <<"PASS", <<"P", "A", "S", "S">>>>,
    <<"PAST", <<"P", "A", "S", "T">>>>,
    <<"PAY", <<"P", "A", "Y">>>>,
    <<"PER", <<"P", "E", "R">>>>,
    <<"PERCENTAGE", <<"P", "E", "R", "C", "E", "N", "T", "A", "G", "E">>>>,
    <<"PERCENTAGES", <<"P", "E", "R", "C", "E", "N", "T", "A", "G", "E", "S">>>>,
    <<"PERFORMANCE", <<"P", "E", "R", "F", "O", "R", "M", "A", "N", "C", "E">>>>,
    <<"PERFORMER", <<"P", "E", "R", "F", "O", "R", "M", "E", "R">>>>,
    <<"PERIOD", <<"P", "E", "R", "I", "O", "D">>>>,
    <<"PIT", <<"P", "I", "T">>>>,
    <<"PLACE", <<"P", "L", "A", "C", "E">>>>,
    <<"PLACEHOLDER", <<"P", "L", "A", "C", "E", "H", "O", "L", "D", "E", "R">>>>,
    <<"PLANNER", <<"P", "L", "A", "N", "N", "E", "R">>>>,
    <<"PLAY", <<"P", "L", "A", "Y">>>>,
    <<"PLEASE", <<"P", "L", "E", "A", "S", "E">>>>,
    <<"PORTFOLIO", <<"P", "O", "R", "T", "F", "O", "L", "I", "O">>>>,
    <<"PORTFOLIOS", <<"P", "O", "R", "T", "F", "O", "L", "I", "O", "S">>>>,
    <<"POSITION", <<"P", "O", "S", "I", "T", "I", "O", "N">>>>,
    <<"POSITIVE", <<"P", "O", "S", "I", "T", "I", "V", "E">>>>,
    <<"POT", <<"P", "O", "T">>>>,
    <<"POTENTIAL", <<"P", "O", "T", "E", "N", "T", "I", "A", "L">>>>,
    <<"POTENTIALLY", <<"P", "O", "T", "E", "N", "T", "I", "A", "L", "L", "Y">>>>,
    <<"PREVIOUSLY", <<"P", "R", "E", "V", "I", "O", "U", "S", "L", "Y">>>>,
    <<"PRICE", <<"P", "R", "I", "C", "E">>>>,
    <<"PRICES", <<"P", "R", "I", "C", "E", "S">>>>,
    <<"PROCESSING", <<"P", "R", "O", "C", "E", "S", "S", "I", "N", "G">>>>,
    <<"PROFILE", <<"P", "R", "O", "F", "I", "L", "E">>>>,
    <<"PROFIT", <<"P", "R", "O", "F", "I", "T">>>>,
    <<"PROFITABLE", <<"P", "R", "O", "F", "I", "T", "A", "B", "L", "E">>>>,
    <<"PROVIDE", <<"P", "R", "O", "V", "I", "D", "E">>>>,
    <<"PULL", <<"P", "U", "L", "L">>>>,
    <<"PULLBACK", <<"P", "U", "L", "L", "B", "A", "C", "K">>>>,
    <<"PUSH", <<"P", "U", "S", "H">>>>,
    <<"PUT", <<"P", "U", "T">>>>,
    <<"Please", <<"P", "l", "e", "a", "s", "e">>>>,
    <<"Please don't sell yet.\n", <<"P", "l", "e", "a", "s", "e", " ", "d", "o", "n", "'", "t", " ", "s", "e", "l", "l", " ", "y", "e", "t", ".", "\n">>>>,
    <<"Portfolio", <<"P", "o", "r", "t", "f", "o", "l", "i", "o">>>>,
    <<"Portfolio Data Needed: NO\n", <<"P", "o", "r", "t", "f", "o", "l", "i", "o", " ", "D", "a", "t", "a", " ", "N", "e", "e", "d", "e", "d", ":", " ", "N", "O", "\n">>>>,
    <<"Portfolio Data Needed: YES", <<"P", "o", "r", "t", "f", "o", "l", "i", "o", " ", "D", "a", "t", "a", " ", "N", "e", "e", "d", "e", "d", ":", " ", "Y", "E", "S">>>>,
    <<"Portfolio Data Needed: YES\n", <<"P", "o", "r", "t", "f", "o", "l", "i", "o", " ", "D", "a", "t", "a", " ", "N", "e", "e", "d", "e", "d", ":", " ", "Y", "E", "S", "\n">>>>,
    <<"Portfolio data not loaded", <<"P", "o", "r", "t", "f", "o", "l", "i", "o", " ", "d", "a", "t", "a", " ", "n", "o", "t", " ", "l", "o", "a", "d", "e", "d">>>>,
    <<"Provide", <<"P", "r", "o", "v", "i", "d", "e">>>>,
    <<"Q", <<"Q">>>>,
    <<"QQQ", <<"Q", "Q", "Q">>>>,
    <<"QUANTITATIVE", <<"Q", "U", "A", "N", "T", "I", "T", "A", "T", "I", "V", "E">>>>,
    <<"QUANTITATIVEANALYST", <<"Q", "U", "A", "N", "T", "I", "T", "A", "T", "I", "V", "E", "A", "N", "A", "L", "Y", "S", "T">>>>,
    <<"QUANTITATIVE_ANALYSIS_COMPLETE", <<"Q", "U", "A", "N", "T", "I", "T", "A", "T", "I", "V", "E", "_", "A", "N", "A", "L", "Y", "S", "I", "S", "_", "C", "O", "M", "P", "L", "E", "T", "E">>>>,
    <<"QUARTER", <<"Q", "U", "A", "R", "T", "E", "R">>>>,
    <<"QUERY", <<"Q", "U", "E", "R", "Y">>>>,
    <<"QuantitativeAnalyst", <<"Q", "u", "a", "n", "t", "i", "t", "a", "t", "i", "v", "e", "A", "n", "a", "l", "y", "s", "t">>>>,
    <<"R", <<"R">>>>,
    <<"RAISED", <<"R", "A", "I", "S", "E", "D">>>>,
    <<"RAN", <<"R", "A", "N">>>>,
    <<"RATED", <<"R", "A", "T", "E", "D">>>>,
    <<"READ", <<"R", "E", "A", "D">>>>,
    <<"READY", <<"R", "E", "A", "D", "Y">>>>,
    <<"REAL", <<"R", "E", "A", "L">>>>,
    <<"REBALANCE", <<"R", "E", "B", "A", "L", "A", "N", "C", "E">>>>,
    <<"RECEIVED", <<"R", "E", "C", "E", "I", "V", "E", "D">>>>,
    <<"RECENT", <<"R", "E", "C", "E", "N", "T">>>>,
    <<"RECOMMEND", <<"R", "E", "C", "O", "M", "M", "E", "N", "D">>>>,
    <<"RECOMMEND BUYING", <<"R", "E", "C", "O", "M", "M", "E", "N", "D", " ", "B", "U", "Y", "I", "N", "G">>>>,
    <<"RECOMMENDATION", <<"R", "E", "C", "O", "M", "M", "E", "N", "D", "A", "T", "I", "O", "N">>>>,
    <<"RECOMMENDATION:", <<"R", "E", "C", "O", "M", "M", "E", "N", "D", "A", "T", "I", "O", "N", ":">>>>,
    <<"RECOMMENDATION: \nBUY now!", <<"R", "E", "C", "O", "M", "M", "E", "N", "D", "A", "T", "I", "O", "N", ":", " ", "\n", "B", "U", "Y", " ", "n", "o", "w", "!">>>>,
    <<"RECOMMENDATION: Accumulate\nCONFIDENCE LEVEL: 11/10", <<"R", "E", "C", "O", "M", "M", "E", "N", "D", "A", "T", "I", "O", "N", ":", " ", "A", "c", "c", "u", "m", "u", "l", "a", "t", "e", "\n", "C", "O", "N", "F", "I", "D", "E", "N", "C", "E", " ", "L", "E", "V", "E", "L", ":", " ", "1", "1", "/", "1", "0">>>>,
    <<"RECOMMENDATION: BUY", <<"R", "E", "C", "O", "M", "M", "E", "N", "D", "A", "T", "I", "O", "N", ":", " ", "B", "U", "Y">>>>,
    <<"RECOMMENDATION: BUY\n", <<"R", "E", "C", "O", "M", "M", "E", "N", "D", "A", "T", "I", "O", "N", ":", " ", "B", "U", "Y", "\n">>>>,
    <<"RECOMMENDATION: BUY\nCONFIDENCE LEVEL: 8/10\nFINAL_ANALYSIS_COMPLETE", <<"R", "E", "C", "O", "M", "M", "E", "N", "D", "A", "T", "I", "O", "N", ":", " ", "B", "U", "Y", "\n", "C", "O", "N", "F", "I", "D", "E", "N", "C", "E", " ", "L", "E", "V", "E", "L", ":", " ", "8", "/", "1", "0", "\n", "F", "I", "N", "A", "L", "_", "A", "N", "A", "L", "Y", "S", "I", "S", "_", "C", "O", "M", "P", "L", "E", "T", "E">>>>,
    <<"RECOMMENDATION: DO NOT SELL\n", <<"R", "E", "C", "O", "M", "M", "E", "N", "D", "A", "T", "I", "O", "N", ":", " ", "D", "O", " ", "N", "O", "T", " ", "S", "E", "L", "L", "\n">>>>,
    <<"RECOMMENDATION: DON'T BUY\nConfidence: 85%", <<"R", "E", "C", "O", "M", "M", "E", "N", "D", "A", "T", "I", "O", "N", ":", " ", "D", "O", "N", "'", "T", " ", "B", "U", "Y", "\n", "C", "o", "n", "f", "i", "d", "e", "n", "c", "e", ":", " ", "8", "5", "%">>>>,
    <<"RECOMMENDATION: DON'T SELL\n6/10", <<"R", "E", "C", "O", "M", "M", "E", "N", "D", "A", "T", "I", "O", "N", ":", " ", "D", "O", "N", "'", "T", " ", "S", "E", "L", "L", "\n", "6", "/", "1", "0">>>>,
    <<"RECOMMENDATION: HOLD\nWe say do not buy more.\n", <<"R", "E", "C", "O", "M", "M", "E", "N", "D", "A", "T", "I", "O", "N", ":", " ", "H", "O", "L", "D", "\n", "W", "e", " ", "s", "a", "y", " ", "d", "o", " ", "n", "o", "t", " ", "b", "u", "y", " ", "m", "o", "r", "e", ".", "\n">>>>,
    <<"RECOMMENDATION: SELL\nCONFIDENCE LEVEL: 0/10", <<"R", "E", "C", "O", "M", "M", "E", "N", "D", "A", "T", "I", "O", "N", ":", " ", "S", "E", "L", "L", "\n", "C", "O", "N", "F", "I", "D", "E", "N", "C", "E", " ", "L", "E", "V", "E", "L", ":", " ", "0", "/", "1", "0">>>>,
    <<"RECOMMENDATION: STRONG BUY\n", <<"R", "E", "C", "O", "M", "M", "E", "N", "D", "A", "T", "I", "O", "N", ":", " ", "S", "T", "R", "O", "N", "G", " ", "B", "U", "Y", "\n">>>>,
    <<"RECOMMENDATION: wait for a pullback\nConfidence: 60%", <<"R", "E", "C", "O", "M", "M", "E", "N", "D", "A", "T", "I", "O", "N", ":", " ", "w", "a", "i", "t", " ", "f", "o", "r", " ", "a", " ", "p", "u", "l", "l", "b", "a", "c", "k", "\n", "C", "o", "n", "f", "i", "d", "e", "n", "c", "e", ":", " ", "6", "0", "%">>>>,
    <<"RECOMMENDATIONS", <<"R", "E", "C", "O", "M", "M", "E", "N", "D", "A", "T", "I", "O", "N", "S">>>>,
    <<"RED", <<"R", "E", "D">>>>,
    <<"REFERENCE", <<"R", "E", "F", "E", "R", "E", "N", "C", "E">>>>,
    <<"REFERRING", <<"R", "E", "F", "E", "R", "R", "I", "N", "G">>>>,
    <<"REPORT", <<"R", "E", "P", "O", "R", "T">>>>,
    <<"REPORTAGENT", <<"R", "E", "P", "O", "R", "T", "A", "G", "E", "N", "T">>>>,
    <<"REQUEST", <<"R", "E", "Q", "U", "E", "S", "T">>>>,
    <<"RESEARCH", <<"R", "E", "S", "E", "A", "R", "C", "H">>>>,
    <<"RESPOND", <<"R", "E", "S", "P", "O", "N", "D">>>>,
    <<"RESPONSE", <<"R", "E", "S", "P", "O", "N", "S", "E">>>>,
    <<"REST", <<"R", "E", "S", "T">>>>,
    <<"RETURN", <<"R", "E", "T", "U", "R", "N">>>>,
    <<"RETURNED", <<"R", "E", "T", "U", "R", "N", "E", "D">>>>,
    <<"RETURNS", <<"R", "E", "T", "U", "R", "N", "S">>>>,
    <<"RIGHT", <<"R", "I", "G", "H", "T">>>>,
    <<"RISE", <<"R", "I", "S", "E">>>>,
    <<"RISK", <<"R", "I", "S", "K">>>>,
    <<"RISKMANAGER", <<"R", "I", "S", "K", "M", "A", "N", "A", "G", "E", "R">>>>,
    <<"RISKS", <<"R", "I", "S", "K", "S">>>>,
    <<"RISKY", <<"R", "I", "S", "K", "Y">>>>,
    <<"RISK_ANALYSIS_COMPLETE", <<"R", "I", "S", "K", "_", "A", "N", "A", "L", "Y", "S", "I", "S", "_", "C", "O", "M", "P", "L", "E", "T", "E">>>>,
    <<"ROOM", <<"R", "O", "O", "M">>>>,
    <<"ROW", <<"R", "O", "W">>>>,
    <<"RUN", <<"R", "U", "N">>>>,
    <<"Rated", <<"R", "a", "t", "e", "d">>>>,
    <<"Rated 6/10 overall.\n", <<"R", "a", "t", "e", "d", " ", "6", "/", "1", "0", " ", "o", "v", "e", "r", "a", "l", "l", ".", "\n">>>>,
    <<"Recommend", <<"R", "e", "c", "o", "m", "m", "e", "n", "d">>>>,
    <<"Recommendations", <<"R", "e", "c", "o", "m", "m", "e", "n", "d", "a", "t", "i", "o", "n", "s">>>>,
    <<"Report", <<"R", "e", "p", "o", "r", "t">>>>,
    <<"ReportAgent", <<"R", "e", "p", "o", "r", "t", "A", "g", "e", "n", "t">>>>,
    <<"Research", <<"R", "e", "s", "e", "a", "r", "c", "h">>>>,
    <<"Response", <<"R", "e", "s", "p", "o", "n", "s", "e">>>>,
    <<"Response contains potentially contradictory terms: '", <<"R", "e", "s", "p", "o", "n", "s", "e", " ", "c", "o", "n", "t", "a", "i", "n", "s", " ", "p", "o", "t", "e", "n", "t", "i", "a", "l", "l", "y", " ", "c", "o", "n", "t", "r", "a", "d", "i", "c", "t", "o", "r", "y", " ", "t", "e", "r", "m", "s", ":", " ", "'">>>>,
    <<"Response contains vague statement: '", <<"R", "e", "s", "p", "o", "n", "s", "e", " ", "c", "o", "n", "t", "a", "i", "n", "s", " ", "v", "a", "g", "u", "e", " ", "s", "t", "a", "t", "e", "m", "e", "n", "t", ":", " ", "'">>>>,
    <<"Response doesn't reference any actual portfolio holdings", <<"R", "e", "s", "p", "o", "n", "s", "e", " ", "d", "o", "e", "s", "n", "'", "t", " ", "r", "e", "f", "e", "r", "e", "n", "c", "e", " ", "a", "n", "y", " ", "a", "c", "t", "u", "a", "l", " ", "p", "o", "r", "t", "f", "o", "l", "i", "o", " ", "h", "o", "l", "d", "i", "n", "g", "s">>>>,
    <<"Response is too short or empty", <<"R", "e", "s", "p", "o", "n", "s", "e", " ", "i", "s", " ", "t", "o", "o", " ", "s", "h", "o", "r", "t", " ", "o", "r", " ", "e", "m", "p", "t", "y">>>>,
    <<"Response lacks specific numerical data for price query", <<"R", "e", "s", "p", "o", "n", "s", "e", " ", "l", "a", "c", "k", "s", " ", "s", "p", "e", "c", "i", "f", "i", "c", " ", "n", "u", "m", "e", "r", "i", "c", "a", "l", " ", "d", "a", "t", "a", " ", "f", "o", "r", " ", "p", "r", "i", "c", "e", " ", "q", "u", "e", "r", "y">>>>,
    <<"RiskManager", <<"R", "i", "s", "k", "M", "a", "n", "a", "g", "e", "r">>>>,
    <<"S", <<"S">>>>,
    <<"SAID", <<"S", "A", "I", "D">>>>,
    <<"SAME", <<"S", "A", "M", "E">>>>,
    <<"SAT", <<"S", "A", "T">>>>,
    <<"SAVE", <<"S", "A", "V", "E">>>>,
    <<"SAY", <<"S", "A", "Y">>>>,
    <<"SEARCH", <<"S", "E", "A", "R", "C", "H">>>>,
    <<"SECTOR", <<"S", "E", "C", "T", "O", "R">>>>,
    <<"SECURITY", <<"S", "E", "C", "U", "R", "I", "T", "Y">>>>,
    <<"SEE", <<"S", "E", "E">>>>,
    <<"SEEM", <<"S", "E", "E", "M">>>>,
    <<"SEEN", <<"S", "E", "E", "N">>>>,
    <<"SELF", <<"S", "E", "L", "F">>>>,
    <<"SELL", <<"S", "E", "L", "L">>>>,
    <<"SENSE", <<"S", "E", "N", "S", "E">>>>,
    <<"SENT", <<"S", "E", "N", "T">>>>,
    <<"SESSION", <<"S", "E", "S", "S", "I", "O", "N">>>>,
    <<"SET", <<"S", "E", "T">>>>,
    <<"SHALL", <<"S", "H", "A", "L", "L">>>>,
    <<"SHARE", <<"S", "H", "A", "R", "E">>>>,
    <<"SHARES", <<"S", "H", "A", "R", "E", "S">>>>,
    <<"SHE", <<"S", "H", "E">>>>,
    <<"SHORT", <<"S", "H", "O", "R", "T">>>>,
    <<"SHOULD", <<"S", "H", "O", "U", "L", "D">>>>,
    <<"SHOW", <<"S", "H", "O", "W">>>>,
    <<"SIDE", <<"S", "I", "D", "E">>>>,
    <<"SIGNALS", <<"S", "I", "G", "N", "A", "L", "S">>>>,
    <<"SINCE", <<"S", "I", "N", "C", "E">>>>,
    <<"SIT", <<"S", "I", "T">>>>,
    <<"SIX", <<"S", "I", "X">>>>,
    <<"SKY", <<"S", "K", "Y">>>>,
    <<"SMALL", <<"S", "M", "A", "L", "L">>>>,
    <<"SO", <<"S", "O">>>>,
    <<"SOME", <<"S", "O", "M", "E">>>>,
    <<"SOON", <<"S", "O", "O", "N">>>>,
    <<"SOURCES", <<"S", "O", "U", "R", "C", "E", "S">>>>,
    <<"SPECIFIC", <<"S", "P", "E", "C", "I", "F", "I", "C">>>>,
    <<"SPECIFICALLY", <<"S", "P", "E", "C", "I", "F", "I", "C", "A", "L", "L", "Y">>>>,
    <<"SPECIFY", <<"S", "P", "E", "C", "I", "F", "Y">>>>,
    <<"SPY", <<"S", "P", "Y">>>>,
    <<"STANDS", <<"S", "T", "A", "N", "D", "S">>>>,
    <<"START", <<"S", "T", "A", "R", "T">>>>,
    <<"STATEMENT", <<"S", "T", "A", "T", "E", "M", "E", "N", "T">>>>,
    <<"STAY", <<"S", "T", "A", "Y">>>>,
    <<"STEP", <<"S", "T", "E", "P">>>>,
    <<"STILL", <<"S", "T", "I", "L", "L">>>>,
    <<"STOCK", <<"S", "T", "O", "C", "K">>>>,
    <<"STOCKS", <<"S", "T", "O", "C", "K", "S">>>>,
    <<"STOP", <<"S", "T", "O", "P">>>>,
    <<"STOPPED", <<"S", "T", "O", "P", "P", "E", "D">>>>,
    <<"STRATEGY", <<"S", "T", "R", "A", "T", "E", "G", "Y">>>>,
    <<"STRATEGYDEVELOPER", <<"S", "T", "R", "A", "T", "E", "G", "Y", "D", "E", "V", "E", "L", "O", "P", "E", "R">>>>,
    <<"STRATEGY_DEVELOPMENT_COMPLETE", <<"S", "T", "R", "A", "T", "E", "G", "Y", "_", "D", "E", "V", "E", "L", "O", "P", "M", "E", "N", "T", "_", "C", "O", "M", "P", "L", "E", "T", "E">>>>,
    <<"STRONG", <<"S", "T", "R", "O", "N", "G">>>>,
    <<"STRONG BUY", <<"S", "T", "R", "O", "N", "G", " ", "B", "U", "Y">>>>,
    <<"STRONG_BUY", <<"S", "T", "R", "O", "N", "G", "_", "B", "U", "Y">>>>,
    <<"STRONG_SELL", <<"S", "T", "R", "O", "N", "G", "_", "S", "E", "L", "L">>>>,
    <<"SUCH", <<"S", "U", "C", "H">>>>,
    <<"SUGGEST", <<"S", "U", "G", "G", "E", "S", "T">>>>,
    <<"SUGGESTIONS", <<"S", "U", "G", "G", "E", "S", "T", "I", "O", "N", "S">>>>,
    <<"SUM", <<"S", "U", "M">>>>,
    <<"SURE", <<"S", "U", "R", "E">>>>,
    <<"See", <<"S", "e", "e">>>>,
    <<"See report", <<"S", "e", "e", " ", "r", "e", "p", "o", "r", "t">>>>,
    <<"Should", <<"S", "h", "o", "u", "l", "d">>>>,
    <<"Should I buy", <<"S", "h", "o", "u", "l", "d", " ", "I", " ", "b", "u", "y">>>>,
    <<"Should I buy it?", <<"S", "h", "o", "u", "l", "d", " ", "I", " ", "b", "u", "y", " ", "i", "t", "?">>>>,
    <<"Some", <<"S", "o", "m", "e">>>>,
    <<"Start", <<"S", "t", "a", "r", "t">>>>,
    <<"StrategyDeveloper", <<"S", "t", "r", "a", "t", "e", "g", "y", "D", "e", "v", "e", "l", "o", "p", "e", "r">>>>,
    <<"T", <<"T">>>>,
    <<"TAKE", <<"T", "A", "K", "E">>>>,
    <<"TALK", <<"T", "A", "L", "K">>>>,
    <<"TAX", <<"T", "A", "X">>>>,
    <<"TEA", <<"T", "E", "A">>>>,
    <<"TEAM", <<"T", "E", "A", "M">>>>,
    <<"TECHNICAL", <<"T", "E", "C", "H", "N", "I", "C", "A", "L">>>>,
    <<"TECHNOLOGY", <<"T", "E", "C", "H", "N", "O", "L", "O", "G", "Y">>>>,
    <<"TELL", <<"T", "E", "L", "L">>>>,
    <<"TEN", <<"T", "E", "N">>>>,
    <<"TEND", <<"T", "E", "N", "D">>>>,
    <<"TERMS", <<"T", "E", "R", "M", "S">>>>,
    <<"TEST", <<"T", "E", "S", "T">>>>,
    <<"TEXT", <<"T", "E", "X", "T">>>>,
    <<"THAN", <<"T", "H", "A", "N">>>>,
    <<"THANKS", <<"T", "H", "A", "N", "K", "S">>>>,
    <<"THAT", <<"T", "H", "A", "T">>>>,
    <<"THE", <<"T", "H", "E">>>>,
    <<"THEIR", <<"T", "H", "E", "I", "R">>>>,
    <<"THEM", <<"T", "H", "E", "M">>>>,
    <<"THEN", <<"T", "H", "E", "N">>>>,
    <<"THERE", <<"T", "H", "E", "R", "E">>>>,
    <<"THESE", <<"T", "H", "E", "S", "E">>>>,
    <<"THEY", <<"T", "H", "E", "Y">>>>,
    <<"THING", <<"T", "H", "I", "N", "G">>>>,
    <<"THINK", <<"T", "H", "I", "N", "K">>>>,
    <<"THIS", <<"T", "H", "I", "S">>>>,
    <<"THOSE", <<"T", "H", "O", "S", "E">>>>,
    <<"THREE", <<"T", "H", "R", "E", "E">>>>,
    <<"THUS", <<"T", "H", "U", "S">>>>,
    <<"TICKERS", <<"T", "I", "C", "K", "E", "R", "S">>>>,
    <<"TIME", <<"T", "I", "M", "E">>>>,
    <<"TIMES", <<"T", "I", "M", "E", "S">>>>,
    <<"TIP", <<"T", "I", "P">>>>,
    <<"TO", <<"T", "O">>>>,
    <<"TODAY", <<"T", "O", "D", "A", "Y">>>>,
    <<"TODO", <<"T", "O", "D", "O">>>>,
    <<"TODO:", <<"T", "O", "D", "O", ":">>>>,
    <<"TOLD", <<"T", "O", "L", "D">>>>,
    <<"TON", <<"T", "O", "N">>>>,
    <<"TOO", <<"T", "O", "O">>>>,
    <<"TOOK", <<"T", "O", "O", "K">>>>,
    <<"TOOL", <<"T", "O", "O", "L">>>>,
    <<"TOP", <<"T", "O", "P">>>>,
    <<"TOTAL", <<"T", "O", "T", "A", "L">>>>,
    <<"TOWN", <<"T", "O", "W", "N">>>>,
    <<"TOY", <<"T", "O", "Y">>>>,
    <<"TRADE", <<"T", "R", "A", "D", "E">>>>,
    <<"TRADING", <<"T", "R", "A", "D", "I", "N", "G">>>>,
    <<"TRADING ANALYSIS REQUEST: ", <<"T", "R", "A", "D", "I", "N", "G", " ", "A", "N", "A", "L", "Y", "S", "I", "S", " ", "R", "E", "Q", "U", "E", "S", "T", ":", " ">>>>,
    <<"TREE", <<"T", "R", "E", "E">>>>,
    <<"TRUE", <<"T", "R", "U", "E">>>>,
    <<"TRY", <<"T", "R", "Y">>>>,
    <<"TSLA", <<"T", "S", "L", "A">>>>,
    <<"TSLA looks strong.", <<"T", "S", "L", "A", " ", "l", "o", "o", "k", "s", " ", "s", "t", "r", "o", "n", "g", ".">>>>,
    <<"TURN", <<"T", "U", "R", "N">>>>,
    <<"TWO", <<"T", "W", "O">>>>,
    <<"TYPEERROR", <<"T", "Y", "P", "E", "E", "R", "R", "O", "R">>>>,
    <<"The", <<"T", "h", "e">>>>,
    <<"The gain outweighs the loss.", <<"T", "h", "e", " ", "g", "a", "i", "n", " ", "o", "u", "t", "w", "e", "i", "g", "h", "s", " ", "t", "h", "e", " ", "l", "o", "s", "s", ".">>>>,
    <<"There", <<"T", "h", "e", "r", "e">>>>,
    <<"This", <<"T", "h", "i", "s">>>>,
    <<"This ETF is diversified.", <<"T", "h", "i", "s", " ", "E", "T", "F", " ", "i", "s", " ", "d", "i", "v", "e", "r", "s", "i", "f", "i", "e", "d", ".">>>>,
    <<"Top", <<"T", "o", "p">>>>,
    <<"Top by what criterion? (return, value, gain?)", <<"T", "o", "p", " ", "b", "y", " ", "w", "h", "a", "t", " ", "c", "r", "i", "t", "e", "r", "i", "o", "n", "?", " ", "(", "r", "e", "t", "u", "r", "n", ",", " ", "v", "a", "l", "u", "e", ",", " ", "g", "a", "i", "n", "?", ")">>>>,
    <<"TypeError", <<"T", "y", "p", "e", "E", "r", "r", "o", "r">>>>,
    <<"U", <<"U">>>>,
    <<"UNABLE", <<"U", "N", "A", "B", "L", "E">>>>,
    <<"UNDER", <<"U", "N", "D", "E", "R">>>>,
    <<"UNEXPECTED", <<"U", "N", "E", "X", "P", "E", "C", "T", "E", "D">>>>,
    <<"UNTIL", <<"U", "N", "T", "I", "L">>>>,
    <<"UP", <<"U", "P">>>>,
    <<"UPON", <<"U", "P", "O", "N">>>>,
    <<"US", <<"U", "S">>>>,
    <<"USE", <<"U", "S", "E">>>>,
    <<"USED", <<"U", "S", "E", "D">>>>,
    <<"USER", <<"U", "S", "E", "R">>>>,
    <<"USING", <<"U", "S", "I", "N", "G">>>>,
    <<"User", <<"U", "s", "e", "r">>>>,
    <<"V", <<"V">>>>,
    <<"VAGUE", <<"V", "A", "G", "U", "E">>>>,
    <<"VALIDATED", <<"V", "A", "L", "I", "D", "A", "T", "E", "D">>>>,
    <<"VALIDATION", <<"V", "A", "L", "I", "D", "A", "T", "I", "O", "N">>>>,
    <<"VALIDATOR", <<"V", "A", "L", "I", "D", "A", "T", "O", "R">>>>,
    <<"VALUE", <<"V", "A", "L", "U", "E">>>>,
    <<"VALUEERROR", <<"V", "A", "L", "U", "E", "E", "R", "R", "O", "R">>>>,
    <<"VALUES", <<"V", "A", "L", "U", "E", "S">>>>,
    <<"VAN", <<"V", "A", "N">>>>,
    <<"VARIABLES", <<"V", "A", "R", "I", "A", "B", "L", "E", "S">>>>,
    <<"VEA", <<"V", "E", "A">>>>,
    <<"VERSUS", <<"V", "E", "R", "S", "U", "S">>>>,
    <<"VERY", <<"V", "E", "R", "Y">>>>,
    <<"VIEW", <<"V", "I", "E", "W">>>>,
    <<"VOLATILITY", <<"V", "O", "L", "A", "T", "I", "L", "I", "T", "Y">>>>,
    <<"VOO", <<"V", "O", "O">>>>,
    <<"VS", <<"V", "S">>>>,
    <<"VTEB", <<"V", "T", "E", "B">>>>,
    <<"VTI", <<"V", "T", "I">>>>,
    <<"VXUS", <<"V", "X", "U", "S">>>>,
    <<"VYM", <<"V", "Y", "M">>>>,
    <<"ValueError", <<"V", "a", "l", "u", "e", "E", "r", "r", "o", "r">>>>,
    <<"W", <<"W">>>>,
    <<"WAIT", <<"W", "A", "I", "T">>>>,
    <<"WALK", <<"W", "A", "L", "K">>>>,
    <<"WANT", <<"W", "A", "N", "T">>>>,
    <<"WANTS", <<"W", "A", "N", "T", "S">>>>,
    <<"WAR", <<"W", "A", "R">>>>,
    <<"WARNING", <<"W", "A", "R", "N", "I", "N", "G">>>>,
    <<"WAS", <<"W", "A", "S">>>>,
    <<"WAY", <<"W", "A", "Y">>>>,
    <<"WE", <<"W", "E">>>>,
    <<"WEEK", <<"W", "E", "E", "K">>>>,
    <<"WEIGHT", <<"W", "E", "I", "G", "H", "T">>>>,
    <<"WELL", <<"W", "E", "L", "L">>>>,
    <<"WENT", <<"W", "E", "N", "T">>>>,
    <<"WERE", <<"W", "E", "R", "E">>>>,
    <<"WET", <<"W", "E", "T">>>>,
    <<"WHAT", <<"W", "H", "A", "T">>>>,
    <<"WHEN", <<"W", "H", "E", "N">>>>,
    <<"WHERE", <<"W", "H", "E", "R", "E">>>>,
    <<"WHICH", <<"W", "H", "I", "C", "H">>>>,
    <<"WHILE", <<"W", "H", "I", "L", "E">>>>,
    <<"WHO", <<"W", "H", "O">>>>,
    <<"WHOSE", <<"W", "H", "O", "S", "E">>>>,
    <<"WHY", <<"W", "H", "Y">>>>,
    <<"WIDE", <<"W", "I", "D", "E">>>>,
    <<"WILL", <<"W", "I", "L", "L">>>>,
    <<"WIN", <<"W", "I", "N">>>>,
    <<"WISH", <<"W", "I", "S", "H">>>>,
    <<"WITH", <<"W", "I", "T", "H">>>>,
    <<"WOMAN", <<"W", "O", "M", "A", "N">>>>,
    <<"WON", <<"W", "O", "N">>>>,
    <<"WORD", <<"W", "O", "R", "D">>>>,
    <<"WORE", <<"W", "O", "R", "E">>>>,
    <<"WORK", <<"W", "O", "R", "K">>>>,
    <<"WORKFLOW", <<"W", "O", "R", "K", "F", "L", "O", "W">>>>,
    <<"WORLD", <<"W", "O", "R", "L", "D">>>>,
    <<"WORST", <<"W", "O", "R", "S", "T">>>>,
    <<"WORTH", <<"W", "O", "R", "T", "H">>>>,
    <<"WOULD", <<"W", "O", "U", "L", "D">>>>,
    <<"WRITE", <<"W", "R", "I", "T", "E">>>>,
    <<"Wants", <<"W", "a", "n", "t", "s">>>>,
    <<"Wants Recommendations: NO\n", <<"W", "a", "n", "t", "s", " ", "R", "e", "c", "o", "m", "m", "e", "n", "d", "a", "t", "i", "o", "n", "s", ":", " ", "N", "O", "\n">>>>,
    <<"Wants Recommendations: YES", <<"W", "a", "n", "t", "s", " ", "R", "e", "c", "o", "m", "m", "e", "n", "d", "a", "t", "i", "o", "n", "s", ":", " ", "Y", "E", "S">>>>,
    <<"Wants Recommendations: YES\n", <<"W", "a", "n", "t", "s", " ", "R", "e", "c", "o", "m", "m", "e", "n", "d", "a", "t", "i", "o", "n", "s", ":", " ", "Y", "E", "S", "\n">>>>,
    <<"Warning", <<"W", "a", "r", "n", "i", "n", "g">>>>,
    <<"Warning: Response validation detected potential issues:\n", <<"W", "a", "r", "n", "i", "n", "g", ":", " ", "R", "e", "s", "p", "o", "n", "s", "e", " ", "v", "a", "l", "i", "d", "a", "t", "i", "o", "n", " ", "d", "e", "t", "e", "c", "t", "e", "d", " ", "p", "o", "t", "e", "n", "t", "i", "a", "l", " ", "i", "s", "s", "u", "e", "s", ":", "\n">>>>,
    <<"We", <<"W", "e">>>>,
    <<"We recommend buying.\n", <<"W", "e", " ", "r", "e", "c", "o", "m", "m", "e", "n", "d", " ", "b", "u", "y", "i", "n", "g", ".", "\n">>>>,
    <<"What", <<"W", "h", "a", "t">>>>,
    <<"What about that stock?", <<"W", "h", "a", "t", " ", "a", "b", "o", "u", "t", " ", "t", "h", "a", "t", " ", "s", "t", "o", "c", "k", "?">>>>,
    <<"What are you comparing? Please specify both items.", <<"W", "h", "a", "t", " ", "a", "r", "e", " ", "y", "o", "u", " ", "c", "o", "m", "p", "a", "r", "i", "n", "g", "?", " ", "P", "l", "e", "a", "s", "e", " ", "s", "p", "e", "c", "i", "f", "y", " ", "b", "o", "t", "h", " ", "i", "t", "e", "m", "s", ".">>>>,
    <<"What stocks do I own?", <<"W", "h", "a", "t", " ", "s", "t", "o", "c", "k", "s", " ", "d", "o", " ", "I", " ", "o", "w", "n", "?">>>>,
    <<"What time period do you mean? (past week, month?)", <<"W", "h", "a", "t", " ", "t", "i", "m", "e", " ", "p", "e", "r", "i", "o", "d", " ", "d", "o", " ", "y", "o", "u", " ", "m", "e", "a", "n", "?", " ", "(", "p", "a", "s", "t", " ", "w", "e", "e", "k", ",", " ", "m", "o", "n", "t", "h", "?", ")">>>>,
    <<"When", <<"W", "h", "e", "n">>>>,
    <<"When specifically? (last week, last month?)", <<"W", "h", "e", "n", " ", "s", "p", "e", "c", "i", "f", "i", "c", "a", "l", "l", "y", "?", " ", "(", "l", "a", "s", "t", " ", "w", "e", "e", "k", ",", " ", "l", "a", "s", "t", " ", "m", "o", "n", "t", "h", "?", ")">>>>,
    <<"Which", <<"W", "h", "i", "c", "h">>>>,
    <<"Which is the best of them?", <<"W", "h", "i", "c", "h", " ", "i", "s", " ", "t", "h", "e", " ", "b", "e", "s", "t", " ", "o", "f", " ", "t", "h", "e", "m", "?">>>>,
    <<"Which specific stock are you referring to when you say '", <<"W", "h", "i", "c", "h", " ", "s", "p", "e", "c", "i", "f", "i", "c", " ", "s", "t", "o", "c", "k", " ", "a", "r", "e", " ", "y", "o", "u", " ", "r", "e", "f", "e", "r", "r", "i", "n", "g", " ", "t", "o", " ", "w", "h", "e", "n", " ", "y", "o", "u", " ", "s", "a", "y", " ", "'">>>>,
    <<"Worst", <<"W", "o", "r", "s", "t">>>>,
    <<"Worst by what metric? (lowest return, highest loss, highest volatility?)", <<"W", "o", "r", "s", "t", " ", "b", "y", " ", "w", "h", "a", "t", " ", "m", "e", "t", "r", "i", "c", "?", " ", "(", "l", "o", "w", "e", "s", "t", " ", "r", "e", "t", "u", "r", "n", ",", " ", "h", "i", "g", "h", "e", "s", "t", " ", "l", "o", "s", "s", ",", " ", "h", "i", "g", "h", "e", "s", "t", " ", "v", "o", "l", "a", "t", "i", "l", "i", "t", "y", "?", ")">>>>,
    <<"Would", <<"W", "o", "u", "l", "d">>>>,
    <<"X", <<"X">>>>,
    <<"Y", <<"Y">>>>,
    <<"YA", <<"Y", "A">>>>,
    <<"YARD", <<"Y", "A", "R", "D">>>>,
    <<"YEAR", <<"Y", "E", "A", "R">>>>,
    <<"YEARS", <<"Y", "E", "A", "R", "S">>>>,
    <<"YES", <<"Y", "E", "S">>>>,
    <<"YET", <<"Y", "E", "T">>>>,
    <<"YOU", <<"Y", "O", "U">>>>,
    <<"YOUNG", <<"Y", "O", "U", "N", "G">>>>,
    <<"YOUR", <<"Y", "O", "U", "R">>>>,
    <<"You", <<"Y", "o", "u">>>>,
    <<"You own AAPL, MSFT and GOOGL.", <<"Y", "o", "u", " ", "o", "w", "n", " ", "A", "A", "P", "L", ",", " ", "M", "S", "F", "T", " ", "a", "n", "d", " ", "G", "O", "O", "G", "L", ".">>>>,
    <<"Your", <<"Y", "o", "u", "r">>>>,
    <<"Your portfolio doesn't contain ", <<"Y", "o", "u", "r", " ", "p", "o", "r", "t", "f", "o", "l", "i", "o", " ", "d", "o", "e", "s", "n", "'", "t", " ", "c", "o", "n", "t", "a", "i", "n", " ">>>>,
    <<"Z", <<"Z">>>>,
    <<"[FunctionCall", <<"[", "F", "u", "n", "c", "t", "i", "o", "n", "C", "a", "l", "l">>>>,
    <<"[FunctionCall(id='call_1', arguments='{}', name='tool')]", <<"[", "F", "u", "n", "c", "t", "i", "o", "n", "C", "a", "l", "l", "(", "i", "d", "=", "'", "c", "a", "l", "l", "_", "1", "'", ",", " ", "a", "r", "g", "u", "m", "e", "n", "t", "s", "=", "'", "{", "}", "'", ",", " ", "n", "a", "m", "e", "=", "'", "t", "o", "o", "l", "'", ")", "]">>>>,
    <<"[FunctionExecutionResult", <<"[", "F", "u", "n", "c", "t", "i", "o", "n", "E", "x", "e", "c", "u", "t", "i", "o", "n", "R", "e", "s", "u", "l", "t">>>>,
    <<"[FunctionExecutionResult(content='Report ready. FINAL_ANALYSIS_COMPLETE', name='tool', call_id='call_1', is_error=False)]", <<"[", "F", "u", "n", "c", "t", "i", "o", "n", "E", "x", "e", "c", "u", "t", "i", "o", "n", "R", "e", "s", "u", "l", "t", "(", "c", "o", "n", "t", "e", "n", "t", "=", "'", "R", "e", "p", "o", "r", "t", " ", "r", "e", "a", "d", "y", ".", " ", "F", "I", "N", "A", "L", "_", "A", "N", "A", "L", "Y", "S", "I", "S", "_", "C", "O", "M", "P", "L", "E", "T", "E", "'", ",", " ", "n", "a", "m", "e", "=", "'", "t", "o", "o", "l", "'", ",", " ", "c", "a", "l", "l", "_", "i", "d", "=", "'", "c", "a", "l", "l", "_", "1", "'", ",", " ", "i", "s", "_", "e", "r", "r", "o", "r", "=", "F", "a", "l", "s", "e", ")", "]">>>>,
    <<"[FunctionExecutionResult(content='ok', name='tool', call_id='call_1', is_error=False)]", <<"[", "F", "u", "n", "c", "t", "i", "o", "n", "E", "x", "e", "c", "u", "t", "i", "o", "n", "R", "e", "s", "u", "l", "t", "(", "c", "o", "n", "t", "e", "n", "t", "=", "'", "o", "k", "'", ",", " ", "n", "a", "m", "e", "=", "'", "t", "o", "o", "l", "'", ",", " ", "c", "a", "l", "l", "_", "i", "d", "=", "'", "c", "a", "l", "l", "_", "1", "'", ",", " ", "i", "s", "_", "e", "r", "r", "o", "r", "=", "F", "a", "l", "s", "e", ")", "]">>>>,
    <<"[PLACEHOLDER]", <<"[", "P", "L", "A", "C", "E", "H", "O", "L", "D", "E", "R", "]">>>>,
    <<"_", <<"_">>>>,
    <<"a", <<"a">>>>,
    <<"about", <<"a", "b", "o", "u", "t">>>>,
    <<"accepting", <<"a", "c", "c", "e", "p", "t", "i", "n", "g">>>>,
    <<"access", <<"a", "c", "c", "e", "s", "s">>>>,
    <<"actual", <<"a", "c", "t", "u", "a", "l">>>>,
    <<"add", <<"a", "d", "d">>>>,
    <<"advice", <<"a", "d", "v", "i", "c", "e">>>>,
    <<"agent", <<"a", "g", "e", "n", "t">>>>,
    <<"all", <<"a", "l", "l">>>>,
    <<"allocation", <<"a", "l", "l", "o", "c", "a", "t", "i", "o", "n">>>>,
    <<"almost", <<"a", "l", "m", "o", "s", "t">>>>,
    <<"almost done", <<"a", "l", "m", "o", "s", "t", " ", "d", "o", "n", "e">>>>,
    <<"alphabetically", <<"a", "l", "p", "h", "a", "b", "e", "t", "i", "c", "a", "l", "l", "y">>>>,
    <<"am", <<"a", "m">>>>,
    <<"among", <<"a", "m", "o", "n", "g">>>>,
    <<"an", <<"a", "n">>>>,
    <<"analysis", <<"a", "n", "a", "l", "y", "s", "i", "s">>>>,
    <<"and", <<"a", "n", "d">>>>,
    <<"answered", <<"a", "n", "s", "w", "e", "r", "e", "d">>>>,
    <<"any", <<"a", "n", "y">>>>,
    <<"are", <<"a", "r", "e">>>>,
    <<"argument", <<"a", "r", "g", "u", "m", "e", "n", "t">>>>,
    <<"arguments", <<"a", "r", "g", "u", "m", "e", "n", "t", "s">>>>,
    <<"assistant", <<"a", "s", "s", "i", "s", "t", "a", "n", "t">>>>,
    <<"at", <<"a", "t">>>>,
    <<"available", <<"a", "v", "a", "i", "l", "a", "b", "l", "e">>>>,
    <<"avoid", <<"a", "v", "o", "i", "d">>>>,
    <<"b", <<"b">>>>,
    <<"backend", <<"b", "a", "c", "k", "e", "n", "d">>>>,
    <<"be", <<"b", "e">>>>,
    <<"below", <<"b", "e", "l", "o", "w">>>>,
    <<"best", <<"b", "e", "s", "t">>>>,
    <<"best performer by total return this month", <<"b", "e", "s", "t", " ", "p", "e", "r", "f", "o", "r", "m", "e", "r", " ", "b", "y", " ", "t", "o", "t", "a", "l", " ", "r", "e", "t", "u", "r", "n", " ", "t", "h", "i", "s", " ", "m", "o", "n", "t", "h">>>>,
    <<"biggest", <<"b", "i", "g", "g", "e", "s", "t">>>>,
    <<"both", <<"b", "o", "t", "h">>>>,
    <<"buy", <<"b", "u", "y">>>>,
    <<"buying", <<"b", "u", "y", "i", "n", "g">>>>,
    <<"by", <<"b", "y">>>>,
    <<"c", <<"c">>>>,
    <<"call", <<"c", "a", "l", "l">>>>,
    <<"can", <<"c", "a", "n">>>>,
    <<"cannot", <<"c", "a", "n", "n", "o", "t">>>>,
    <<"check", <<"c", "h", "e", "c", "k">>>>,
    <<"clarification", <<"c", "l", "a", "r", "i", "f", "i", "c", "a", "t", "i", "o", "n">>>>,
    <<"clarification_message", <<"c", "l", "a", "r", "i", "f", "i", "c", "a", "t", "i", "o", "n", "_", "m", "e", "s", "s", "a", "g", "e">>>>,
    <<"clean", <<"c", "l", "e", "a", "n">>>>,
    <<"clean_debug_markers", <<"c", "l", "e", "a", "n", "_", "d", "e", "b", "u", "g", "_", "m", "a", "r", "k", "e", "r", "s">>>>,
    <<"client", <<"c", "l", "i", "e", "n", "t">>>>,
    <<"client_id", <<"c", "l", "i", "e", "n", "t", "_", "i", "d">>>>,
    <<"closed", <<"c", "l", "o", "s", "e", "d">>>>,
    <<"collaboration", <<"c", "o", "l", "l", "a", "b", "o", "r", "a", "t", "i", "o", "n">>>>,
    <<"collaboration_findings", <<"c", "o", "l", "l", "a", "b", "o", "r", "a", "t", "i", "o", "n", "_", "f", "i", "n", "d", "i", "n", "g", "s">>>>,
    <<"companies", <<"c", "o", "m", "p", "a", "n", "i", "e", "s">>>>,
    <<"compared", <<"c", "o", "m", "p", "a", "r", "e", "d">>>>,
    <<"compared to", <<"c", "o", "m", "p", "a", "r", "e", "d", " ", "t", "o">>>>,
    <<"comparing", <<"c", "o", "m", "p", "a", "r", "i", "n", "g">>>>,
    <<"completed", <<"c", "o", "m", "p", "l", "e", "t", "e", "d">>>>,
    <<"confidence", <<"c", "o", "n", "f", "i", "d", "e", "n", "c", "e">>>>,
    <<"connectivity", <<"c", "o", "n", "n", "e", "c", "t", "i", "v", "i", "t", "y">>>>,
    <<"contain", <<"c", "o", "n", "t", "a", "i", "n">>>>,
    <<"contains", <<"c", "o", "n", "t", "a", "i", "n", "s">>>>,
    <<"content", <<"c", "o", "n", "t", "e", "n", "t">>>>,
    <<"contradictory", <<"c", "o", "n", "t", "r", "a", "d", "i", "c", "t", "o", "r", "y">>>>,
    <<"conversation", <<"c", "o", "n", "v", "e", "r", "s", "a", "t", "i", "o", "n">>>>,
    <<"conversation_history", <<"c", "o", "n", "v", "e", "r", "s", "a", "t", "i", "o", "n", "_", "h", "i", "s", "t", "o", "r", "y">>>>,
    <<"criterion", <<"c", "r", "i", "t", "e", "r", "i", "o", "n">>>>,
    <<"current", <<"c", "u", "r", "r", "e", "n", "t">>>>,
    <<"currently", <<"c", "u", "r", "r", "e", "n", "t", "l", "y">>>>,
    <<"d", <<"d">>>>,
    <<"data", <<"d", "a", "t", "a">>>>,
    <<"day", <<"d", "a", "y">>>>,
    <<"debug", <<"d", "e", "b", "u", "g">>>>,
    <<"decisions", <<"d", "e", "c", "i", "s", "i", "o", "n", "s">>>>,
    <<"decrease", <<"d", "e", "c", "r", "e", "a", "s", "e">>>>,
    <<"demo", <<"d", "e", "m", "o">>>>,
    <<"detected", <<"d", "e", "t", "e", "c", "t", "e", "d">>>>,
    <<"different", <<"d", "i", "f", "f", "e", "r", "e", "n", "t">>>>,
    <<"diversified", <<"d", "i", "v", "e", "r", "s", "i", "f", "i", "e", "d">>>>,
    <<"diversify", <<"d", "i", "v", "e", "r", "s", "i", "f", "y">>>>,
    <<"diversity", <<"d", "i", "v", "e", "r", "s", "i", "t", "y">>>>,
    <<"do", <<"d", "o">>>>,
    <<"does", <<"d", "o", "e", "s">>>>,
    <<"doesn", <<"d", "o", "e", "s", "n">>>>,
    <<"doing", <<"d", "o", "i", "n", "g">>>>,
    <<"don", <<"d", "o", "n">>>>,
    <<"done", <<"d", "o", "n", "e">>>>,
    <<"down", <<"d", "o", "w", "n">>>>,
    <<"e", <<"e">>>>,
    <<"empty", <<"e", "m", "p", "t", "y">>>>,
    <<"environment", <<"e", "n", "v", "i", "r", "o", "n", "m", "e", "n", "t">>>>,
    <<"error", <<"e", "r", "r", "o", "r">>>>,
    <<"executed", <<"e", "x", "e", "c", "u", "t", "e", "d">>>>,
    <<"f", <<"f">>>>,
    <<"fast", <<"f", "a", "s", "t">>>>,
    <<"fetching", <<"f", "e", "t", "c", "h", "i", "n", "g">>>>,
    <<"final", <<"f", "i", "n", "a", "l">>>>,
    <<"findings", <<"f", "i", "n", "d", "i", "n", "g", "s">>>>,
    <<"first", <<"f", "i", "r", "s", "t">>>>,
    <<"first one", <<"f", "i", "r", "s", "t", " ", "o", "n", "e">>>>,
    <<"for", <<"f", "o", "r">>>>,
    <<"found", <<"f", "o", "u", "n", "d">>>>,
    <<"fundamentals", <<"f", "u", "n", "d", "a", "m", "e", "n", "t", "a", "l", "s">>>>,
    <<"funds", <<"f", "u", "n", "d", "s">>>>,
    <<"g", <<"g">>>>,
    <<"gain", <<"g", "a", "i", "n">>>>,
    <<"given", <<"g", "i", "v", "e", "n">>>>,
    <<"good", <<"g", "o", "o", "d">>>>,
    <<"got", <<"g", "o", "t">>>>,
    <<"h", <<"h">>>>,
    <<"have", <<"h", "a", "v", "e">>>>,
    <<"hello", <<"h", "e", "l", "l", "o">>>>,
    <<"highest", <<"h", "i", "g", "h", "e", "s", "t">>>>,
    <<"history", <<"h", "i", "s", "t", "o", "r", "y">>>>,
    <<"hold", <<"h", "o", "l", "d">>>>,
    <<"holding", <<"h", "o", "l", "d", "i", "n", "g">>>>,
    <<"holdings", <<"h", "o", "l", "d", "i", "n", "g", "s">>>>,
    <<"how", <<"h", "o", "w">>>>,
    <<"how can i", <<"h", "o", "w", " ", "c", "a", "n", " ", "i">>>>,
    <<"how is", <<"h", "o", "w", " ", "i", "s">>>>,
    <<"how is my portfolio doing", <<"h", "o", "w", " ", "i", "s", " ", "m", "y", " ", "p", "o", "r", "t", "f", "o", "l", "i", "o", " ", "d", "o", "i", "n", "g">>>>,
    <<"how much", <<"h", "o", "w", " ", "m", "u", "c", "h">>>>,
    <<"how risky", <<"h", "o", "w", " ", "r", "i", "s", "k", "y">>>>,
    <<"how to improve", <<"h", "o", "w", " ", "t", "o", " ", "i", "m", "p", "r", "o", "v", "e">>>>,
    <<"i", <<"i">>>>,
    <<"id", <<"i", "d">>>>,
    <<"idle", <<"i", "d", "l", "e">>>>,
    <<"improve", <<"i", "m", "p", "r", "o", "v", "e">>>>,
    <<"in", <<"i", "n">>>>,
    <<"in my portfolio", <<"i", "n", " ", "m", "y", " ", "p", "o", "r", "t", "f", "o", "l", "i", "o">>>>,
    <<"increase", <<"i", "n", "c", "r", "e", "a", "s", "e">>>>,
    <<"information", <<"i", "n", "f", "o", "r", "m", "a", "t", "i", "o", "n">>>>,
    <<"invoked", <<"i", "n", "v", "o", "k", "e", "d">>>>,
    <<"is", <<"i", "s">>>>,
    <<"issue", <<"i", "s", "s", "u", "e">>>>,
    <<"issues", <<"i", "s", "s", "u", "e", "s">>>>,
    <<"it", <<"i", "t">>>>,
    <<"items", <<"i", "t", "e", "m", "s">>>>,
    <<"j", <<"j">>>>,
    <<"k", <<"k">>>>,
    <<"keyword", <<"k", "e", "y", "w", "o", "r", "d">>>>,
    <<"l", <<"l">>>>,
    <<"lacks", <<"l", "a", "c", "k", "s">>>>,
    <<"langgraph", <<"l", "a", "n", "g", "g", "r", "a", "p", "h">>>>,
    <<"langgraph_backend", <<"l", "a", "n", "g", "g", "r", "a", "p", "h", "_", "b", "a", "c", "k", "e", "n", "d">>>>,
    <<"large", <<"l", "a", "r", "g", "e">>>>,
    <<"largest", <<"l", "a", "r", "g", "e", "s", "t">>>>,
    <<"last", <<"l", "a", "s", "t">>>>,
    <<"lately", <<"l", "a", "t", "e", "l", "y">>>>,
    <<"like", <<"l", "i", "k", "e">>>>,
    <<"limitations", <<"l", "i", "m", "i", "t", "a", "t", "i", "o", "n", "s">>>>,
    <<"loaded", <<"l", "o", "a", "d", "e", "d">>>>,
    <<"looks", <<"l", "o", "o", "k", "s">>>>,
    <<"loop", <<"l", "o", "o", "p">>>>,
    <<"loss", <<"l", "o", "s", "s">>>>,
    <<"lowest", <<"l", "o", "w", "e", "s", "t">>>>,
    <<"m", <<"m">>>>,
    <<"many", <<"m", "a", "n", "y">>>>,
    <<"markers", <<"m", "a", "r", "k", "e", "r", "s">>>>,
    <<"market", <<"m", "a", "r", "k", "e", "t">>>>,
    <<"market data needed: no\n", <<"m", "a", "r", "k", "e", "t", " ", "d", "a", "t", "a", " ", "n", "e", "e", "d", "e", "d", ":", " ", "n", "o", "\n">>>>,
    <<"market_agent", <<"m", "a", "r", "k", "e", "t", "_", "a", "g", "e", "n", "t">>>>,
    <<"market_data", <<"m", "a", "r", "k", "e", "t", "_", "d", "a", "t", "a">>>>,
    <<"may", <<"m", "a", "y">>>>,
    <<"me", <<"m", "e">>>>,
    <<"mean", <<"m", "e", "a", "n">>>>,
    <<"message", <<"m", "e", "s", "s", "a", "g", "e">>>>,
    <<"metric", <<"m", "e", "t", "r", "i", "c">>>>,
    <<"month", <<"m", "o", "n", "t", "h">>>>,
    <<"more", <<"m", "o", "r", "e">>>>,
    <<"most", <<"m", "o", "s", "t">>>>,
    <<"much", <<"m", "u", "c", "h">>>>,
    <<"my", <<"m", "y">>>>,
    <<"my holdings", <<"m", "y", " ", "h", "o", "l", "d", "i", "n", "g", "s">>>>,
    <<"my portfolio", <<"m", "y", " ", "p", "o", "r", "t", "f", "o", "l", "i", "o">>>>,
    <<"my stocks", <<"m", "y", " ", "s", "t", "o", "c", "k", "s">>>>,
    <<"my total", <<"m", "y", " ", "t", "o", "t", "a", "l">>>>,
    <<"n", <<"n">>>>,
    <<"name", <<"n", "a", "m", "e">>>>,
    <<"needed", <<"n", "e", "e", "d", "e", "d">>>>,
    <<"needs", <<"n", "e", "e", "d", "s">>>>,
    <<"needs_clarification", <<"n", "e", "e", "d", "s", "_", "c", "l", "a", "r", "i", "f", "i", "c", "a", "t", "i", "o", "n">>>>,
    <<"needs_market", <<"n", "e", "e", "d", "s", "_", "m", "a", "r", "k", "e", "t">>>>,
    <<"needs_portfolio", <<"n", "e", "e", "d", "s", "_", "p", "o", "r", "t", "f", "o", "l", "i", "o">>>>,
    <<"negative", <<"n", "e", "g", "a", "t", "i", "v", "e">>>>,
    <<"new", <<"n", "e", "w">>>>,
    <<"news", <<"n", "e", "w", "s">>>>,
    <<"no", <<"n", "o">>>>,
    <<"none", <<"n", "o", "n", "e">>>>,
    <<"not", <<"n", "o", "t">>>>,
    <<"now", <<"n", "o", "w">>>>,
    <<"number", <<"n", "u", "m", "b", "e", "r">>>>,
    <<"numerical", <<"n", "u", "m", "e", "r", "i", "c", "a", "l">>>>,
    <<"o", <<"o">>>>,
    <<"occurred", <<"o", "c", "c", "u", "r", "r", "e", "d">>>>,
    <<"of", <<"o", "f">>>>,
    <<"offer", <<"o", "f", "f", "e", "r">>>>,
    <<"ok", <<"o", "k">>>>,
    <<"on", <<"o", "n">>>>,
    <<"one", <<"o", "n", "e">>>>,
    <<"open", <<"o", "p", "e", "n">>>>,
    <<"optimize", <<"o", "p", "t", "i", "m", "i", "z", "e">>>>,
    <<"or", <<"o", "r">>>>,
    <<"order", <<"o", "r", "d", "e", "r">>>>,
    <<"out", <<"o", "u", "t">>>>,
    <<"outweighs", <<"o", "u", "t", "w", "e", "i", "g", "h", "s">>>>,
    <<"overall", <<"o", "v", "e", "r", "a", "l", "l">>>>,
    <<"own", <<"o", "w", "n">>>>,
    <<"p", <<"p">>>>,
    <<"past", <<"p", "a", "s", "t">>>>,
    <<"percentage", <<"p", "e", "r", "c", "e", "n", "t", "a", "g", "e">>>>,
    <<"percentages", <<"p", "e", "r", "c", "e", "n", "t", "a", "g", "e", "s">>>>,
    <<"performance", <<"p", "e", "r", "f", "o", "r", "m", "a", "n", "c", "e">>>>,
    <<"performer", <<"p", "e", "r", "f", "o", "r", "m", "e", "r">>>>,
    <<"period", <<"p", "e", "r", "i", "o", "d">>>>,
    <<"planner", <<"p", "l", "a", "n", "n", "e", "r">>>>,
    <<"portfolio", <<"p", "o", "r", "t", "f", "o", "l", "i", "o">>>>,
    <<"portfolio value", <<"p", "o", "r", "t", "f", "o", "l", "i", "o", " ", "v", "a", "l", "u", "e">>>>,
    <<"portfolio_agent", <<"p", "o", "r", "t", "f", "o", "l", "i", "o", "_", "a", "g", "e", "n", "t">>>>,
    <<"portfolio_data", <<"p", "o", "r", "t", "f", "o", "l", "i", "o", "_", "d", "a", "t", "a">>>>,
    <<"position", <<"p", "o", "s", "i", "t", "i", "o", "n">>>>,
    <<"positive", <<"p", "o", "s", "i", "t", "i", "v", "e">>>>,
    <<"potential", <<"p", "o", "t", "e", "n", "t", "i", "a", "l">>>>,
    <<"potentially", <<"p", "o", "t", "e", "n", "t", "i", "a", "l", "l", "y">>>>,
    <<"previously", <<"p", "r", "e", "v", "i", "o", "u", "s", "l", "y">>>>,
    <<"price", <<"p", "r", "i", "c", "e">>>>,
    <<"price of", <<"p", "r", "i", "c", "e", " ", "o", "f">>>>,
    <<"price of AAPL", <<"p", "r", "i", "c", "e", " ", "o", "f", " ", "A", "A", "P", "L">>>>,
    <<"price of TSLA", <<"p", "r", "i", "c", "e", " ", "o", "f", " ", "T", "S", "L", "A">>>>,
    <<"processing", <<"p", "r", "o", "c", "e", "s", "s", "i", "n", "g">>>>,
    <<"profile", <<"p", "r", "o", "f", "i", "l", "e">>>>,
    <<"profit", <<"p", "r", "o", "f", "i", "t">>>>,
    <<"profitable", <<"p", "r", "o", "f", "i", "t", "a", "b", "l", "e">>>>,
    <<"provide", <<"p", "r", "o", "v", "i", "d", "e">>>>,
    <<"pullback", <<"p", "u", "l", "l", "b", "a", "c", "k">>>>,
    <<"q", <<"q">>>>,
    <<"quarter", <<"q", "u", "a", "r", "t", "e", "r">>>>,
    <<"query", <<"q", "u", "e", "r", "y">>>>,
    <<"r", <<"r">>>>,
    <<"raised", <<"r", "a", "i", "s", "e", "d">>>>,
    <<"ready", <<"r", "e", "a", "d", "y">>>>,
    <<"rebalance", <<"r", "e", "b", "a", "l", "a", "n", "c", "e">>>>,
    <<"received", <<"r", "e", "c", "e", "i", "v", "e", "d">>>>,
    <<"recent", <<"r", "e", "c", "e", "n", "t">>>>,
    <<"recommend", <<"r", "e", "c", "o", "m", "m", "e", "n", "d">>>>,
    <<"recommendation", <<"r", "e", "c", "o", "m", "m", "e", "n", "d", "a", "t", "i", "o", "n">>>>,
    <<"recommendations", <<"r", "e", "c", "o", "m", "m", "e", "n", "d", "a", "t", "i", "o", "n", "s">>>>,
    <<"reference", <<"r", "e", "f", "e", "r", "e", "n", "c", "e">>>>,
    <<"referring", <<"r", "e", "f", "e", "r", "r", "i", "n", "g">>>>,
    <<"report", <<"r", "e", "p", "o", "r", "t">>>>,
    <<"respond", <<"r", "e", "s", "p", "o", "n", "d">>>>,
    <<"response", <<"r", "e", "s", "p", "o", "n", "s", "e">>>>,
    <<"return", <<"r", "e", "t", "u", "r", "n">>>>,
    <<"returned", <<"r", "e", "t", "u", "r", "n", "e", "d">>>>,
    <<"risk", <<"r", "i", "s", "k">>>>,
    <<"risk profile", <<"r", "i", "s", "k", " ", "p", "r", "o", "f", "i", "l", "e">>>>,
    <<"risky", <<"r", "i", "s", "k", "y">>>>,
    <<"run", <<"r", "u", "n">>>>,
    <<"run_fast_6agent_analysis", <<"r", "u", "n", "_", "f", "a", "s", "t", "_", "6", "a", "g", "e", "n", "t", "_", "a", "n", "a", "l", "y", "s", "i", "s">>>>,
    <<"run_workflow() got an unexpected keyword argument 'conversation_history'", <<"r", "u", "n", "_", "w", "o", "r", "k", "f", "l", "o", "w", "(", ")", " ", "g", "o", "t", " ", "a", "n", " ", "u", "n", "e", "x", "p", "e", "c", "t", "e", "d", " ", "k", "e", "y", "w", "o", "r", "d", " ", "a", "r", "g", "u", "m", "e", "n", "t", " ", "'", "c", "o", "n", "v", "e", "r", "s", "a", "t", "i", "o", "n", "_", "h", "i", "s", "t", "o", "r", "y", "'">>>>,
    <<"s", <<"s">>>>,
    <<"say", <<"s", "a", "y">>>>,
    <<"search", <<"s", "e", "a", "r", "c", "h">>>>,
    <<"sector", <<"s", "e", "c", "t", "o", "r">>>>,
    <<"sector allocation", <<"s", "e", "c", "t", "o", "r", " ", "a", "l", "l", "o", "c", "a", "t", "i", "o", "n">>>>,
    <<"security", <<"s", "e", "c", "u", "r", "i", "t", "y">>>>,
    <<"see", <<"s", "e", "e">>>>,
    <<"sell", <<"s", "e", "l", "l">>>>,
    <<"sense", <<"s", "e", "n", "s", "e">>>>,
    <<"session", <<"s", "e", "s", "s", "i", "o", "n">>>>,
    <<"session-a", <<"s", "e", "s", "s", "i", "o", "n", "-", "a">>>>,
    <<"session-b", <<"s", "e", "s", "s", "i", "o", "n", "-", "b">>>>,
    <<"shares", <<"s", "h", "a", "r", "e", "s">>>>,
    <<"short", <<"s", "h", "o", "r", "t">>>>,
    <<"should", <<"s", "h", "o", "u", "l", "d">>>>,
    <<"should i buy", <<"s", "h", "o", "u", "l", "d", " ", "i", " ", "b", "u", "y">>>>,
    <<"should i sell", <<"s", "h", "o", "u", "l", "d", " ", "i", " ", "s", "e", "l", "l">>>>,
    <<"signals", <<"s", "i", "g", "n", "a", "l", "s">>>>,
    <<"so", <<"s", "o">>>>,
    <<"sources", <<"s", "o", "u", "r", "c", "e", "s">>>>,
    <<"specific", <<"s", "p", "e", "c", "i", "f", "i", "c">>>>,
    <<"specifically", <<"s", "p", "e", "c", "i", "f", "i", "c", "a", "l", "l", "y">>>>,
    <<"specify", <<"s", "p", "e", "c", "i", "f", "y">>>>,
    <<"stands", <<"s", "t", "a", "n", "d", "s">>>>,
    <<"statement", <<"s", "t", "a", "t", "e", "m", "e", "n", "t">>>>,
    <<"stock", <<"s", "t", "o", "c", "k">>>>,
    <<"stock recommendation", <<"s", "t", "o", "c", "k", " ", "r", "e", "c", "o", "m", "m", "e", "n", "d", "a", "t", "i", "o", "n">>>>,
    <<"stocks", <<"s", "t", "o", "c", "k", "s">>>>,
    <<"stocks do i have", <<"s", "t", "o", "c", "k", "s", " ", "d", "o", " ", "i", " ", "h", "a", "v", "e">>>>,
    <<"stopped", <<"s", "t", "o", "p", "p", "e", "d">>>>,
    <<"strategy", <<"s", "t", "r", "a", "t", "e", "g", "y">>>>,
    <<"strong", <<"s", "t", "r", "o", "n", "g">>>>,
    <<"suggest", <<"s", "u", "g", "g", "e", "s", "t">>>>,
    <<"suggestions", <<"s", "u", "g", "g", "e", "s", "t", "i", "o", "n", "s">>>>,
    <<"t", <<"t">>>>,
    <<"technical", <<"t", "e", "c", "h", "n", "i", "c", "a", "l">>>>,
    <<"technology", <<"t", "e", "c", "h", "n", "o", "l", "o", "g", "y">>>>,
    <<"terms", <<"t", "e", "r", "m", "s">>>>,
    <<"thanks", <<"t", "h", "a", "n", "k", "s">>>>,
    <<"that", <<"t", "h", "a", "t">>>>,
    <<"that one", <<"t", "h", "a", "t", " ", "o", "n", "e">>>>,
    <<"that stock", <<"t", "h", "a", "t", " ", "s", "t", "o", "c", "k">>>>,
    <<"the", <<"t", "h", "e">>>>,
    <<"the stock", <<"t", "h", "e", " ", "s", "t", "o", "c", "k">>>>,
    <<"their", <<"t", "h", "e", "i", "r">>>>,
    <<"them", <<"t", "h", "e", "m">>>>,
    <<"this", <<"t", "h", "i", "s">>>>,
    <<"this one", <<"t", "h", "i", "s", " ", "o", "n", "e">>>>,
    <<"those", <<"t", "h", "o", "s", "e">>>>,
    <<"tickers", <<"t", "i", "c", "k", "e", "r", "s">>>>,
    <<"time", <<"t", "i", "m", "e">>>>,
    <<"to", <<"t", "o">>>>,
    <<"today", <<"t", "o", "d", "a", "y">>>>,
    <<"too", <<"t", "o", "o">>>>,
    <<"tool", <<"t", "o", "o", "l">>>>,
    <<"top", <<"t", "o", "p">>>>,
    <<"top holding", <<"t", "o", "p", " ", "h", "o", "l", "d", "i", "n", "g">>>>,
    <<"total", <<"t", "o", "t", "a", "l">>>>,
    <<"total value", <<"t", "o", "t", "a", "l", " ", "v", "a", "l", "u", "e">>>>,
    <<"total worth", <<"t", "o", "t", "a", "l", " ", "w", "o", "r", "t", "h">>>>,
    <<"trading", <<"t", "r", "a", "d", "i", "n", "g">>>>,
    <<"u", <<"u">>>>,
    <<"unable", <<"u", "n", "a", "b", "l", "e">>>>,
    <<"unable to provide", <<"u", "n", "a", "b", "l", "e", " ", "t", "o", " ", "p", "r", "o", "v", "i", "d", "e">>>>,
    <<"unexpected", <<"u", "n", "e", "x", "p", "e", "c", "t", "e", "d">>>>,
    <<"up", <<"u", "p">>>>,
    <<"user", <<"u", "s", "e", "r">>>>,
    <<"v", <<"v">>>>,
    <<"vague", <<"v", "a", "g", "u", "e">>>>,
    <<"validated", <<"v", "a", "l", "i", "d", "a", "t", "e", "d">>>>,
    <<"validation", <<"v", "a", "l", "i", "d", "a", "t", "i", "o", "n">>>>,
    <<"validator", <<"v", "a", "l", "i", "d", "a", "t", "o", "r">>>>,
    <<"value", <<"v", "a", "l", "u", "e">>>>,
    <<"value i hold", <<"v", "a", "l", "u", "e", " ", "i", " ", "h", "o", "l", "d">>>>,
    <<"variables", <<"v", "a", "r", "i", "a", "b", "l", "e", "s">>>>,
    <<"versus", <<"v", "e", "r", "s", "u", "s">>>>,
    <<"volatility", <<"v", "o", "l", "a", "t", "i", "l", "i", "t", "y">>>>,
    <<"vs", <<"v", "s">>>>,
    <<"w", <<"w">>>>,
    <<"wait", <<"w", "a", "i", "t">>>>,
    <<"week", <<"w", "e", "e", "k">>>>,
    <<"weight", <<"w", "e", "i", "g", "h", "t">>>>,
    <<"what", <<"w", "h", "a", "t">>>>,
    <<"what do i have", <<"w", "h", "a", "t", " ", "d", "o", " ", "i", " ", "h", "a", "v", "e">>>>,
    <<"what do i own", <<"w", "h", "a", "t", " ", "d", "o", " ", "i", " ", "o", "w", "n">>>>,
    <<"what is the best one among all of the many large technology companies on offer today", <<"w", "h", "a", "t", " ", "i", "s", " ", "t", "h", "e", " ", "b", "e", "s", "t", " ", "o", "n", "e", " ", "a", "m", "o", "n", "g", " ", "a", "l", "l", " ", "o", "f", " ", "t", "h", "e", " ", "m", "a", "n", "y", " ", "l", "a", "r", "g", "e", " ", "t", "e", "c", "h", "n", "o", "l", "o", "g", "y", " ", "c", "o", "m", "p", "a", "n", "i", "e", "s", " ", "o", "n", " ", "o", "f", "f", "e", "r", " ", "t", "o", "d", "a", "y">>>>,
    <<"what is the market value of my portfolio", <<"w", "h", "a", "t", " ", "i", "s", " ", "t", "h", "e", " ", "m", "a", "r", "k", "e", "t", " ", "v", "a", "l", "u", "e", " ", "o", "f", " ", "m", "y", " ", "p", "o", "r", "t", "f", "o", "l", "i", "o">>>>,
    <<"what should i do", <<"w", "h", "a", "t", " ", "s", "h", "o", "u", "l", "d", " ", "i", " ", "d", "o">>>>,
    <<"what stock", <<"w", "h", "a", "t", " ", "s", "t", "o", "c", "k">>>>,
    <<"what stocks", <<"w", "h", "a", "t", " ", "s", "t", "o", "c", "k", "s">>>>,
    <<"what's the best one", <<"w", "h", "a", "t", "'", "s", " ", "t", "h", "e", " ", "b", "e", "s", "t", " ", "o", "n", "e">>>>,
    <<"when", <<"w", "h", "e", "n">>>>,
    <<"which", <<"w", "h", "i", "c", "h">>>>,
    <<"which stock", <<"w", "h", "i", "c", "h", " ", "s", "t", "o", "c", "k">>>>,
    <<"while", <<"w", "h", "i", "l", "e">>>>,
    <<"with", <<"w", "i", "t", "h">>>>,
    <<"workflow", <<"w", "o", "r", "k", "f", "l", "o", "w">>>>,
    <<"worst", <<"w", "o", "r", "s", "t">>>>,
    <<"worst stock?", <<"w", "o", "r", "s", "t", " ", "s", "t", "o", "c", "k", "?">>>>,
    <<"worth", <<"w", "o", "r", "t", "h">>>>,
    <<"would", <<"w", "o", "u", "l", "d">>>>,
    <<"x", <<"x">>>>,
    <<"y", <<"y">>>>,
    <<"year", <<"y", "e", "a", "r">>>>,
    <<"yet", <<"y", "e", "t">>>>,
    <<"you", <<"y", "o", "u">>>>,
    <<"your", <<"y", "o", "u", "r">>>>,
    <<"z", <<"z">>>>
  }
\* Spell table end

Spell == [s \in {p[1] : p \in SpellPairs} |-> (CHOOSE p \in SpellPairs : p[1] = s)[2]]

UpperLetters ==
  <<"A","B","C","D","E","F","G","H","I","J","K","L","M",
    "N","O","P","Q","R","S","T","U","V","W","X","Y","Z">>

LowerLetters ==
  <<"a","b","c","d","e","f","g","h","i","j","k","l","m",
    "n","o","p","q","r","s","t","u","v","w","x","y","z">>

Digits == {"0","1","2","3","4","5","6","7","8","9"}

IsUpper(c) == \E i \in 1..26 : UpperLetters[i] = c

IsLower(c) == \E i \in 1..26 : LowerLetters[i] = c

IsDigit(c) == c \in Digits

\* \w of Python's re: letters, digits and the underscore
IsWordChar(c) == IsUpper(c) \/ IsLower(c) \/ IsDigit(c) \/ c = "_"

\* \s of Python's re, for the characters the model uses
IsSpace(c) == c \in {" ", "\n", "\t"}

LowerChar(c) == IF IsUpper(c) THEN LowerLetters[CHOOSE i \in 1..26 : UpperLetters[i] = c] ELSE c

UpperChar(c) == IF IsLower(c) THEN UpperLetters[CHOOSE i \in 1..26 : LowerLetters[i] = c] ELSE c

\* str.lower() and str.upper()
Lower(cs) == [i \in 1..Len(cs) |-> LowerChar(cs[i])]

Upper(cs) == [i \in 1..Len(cs) |-> UpperChar(cs[i])]

\* the characters of a text: the concatenation of its pieces
RECURSIVE Chars(_)
Chars(text) == IF text = <<>> THEN <<>> ELSE Spell[Head(text)] \o Chars(Tail(text))

\* Python's `sub in cs`
Contains(sub, cs) ==
  \E i \in 1..(Len(cs) - Len(sub) + 1) : SubSeq(cs, i, i + Len(sub) - 1) = sub

\* `piece in cs` for a literal of the source
Has(piece, cs) == Contains(Spell[piece], cs)

\* any(k in cs for k in keywords)
HasAny(keywords, cs) == \E k \in keywords : Has(k, cs)

\* str.startswith
StartsWith(cs, prefix) == Len(prefix) <= Len(cs) /\ SubSeq(cs, 1, Len(prefix)) = prefix

\* a value computed once and named in what follows: Body(value)
With(value, Body(_)) == Body(value)

\* str.strip() for the whitespace the model uses
LStrip(cs) ==
  LET first == CHOOSE i \in 1..(Len(cs) + 1) :
                 /\ \A k \in 1..(i - 1) : IsSpace(cs[k])
                 /\ i = Len(cs) + 1 \/ ~IsSpace(cs[i])
  IN  SubSeq(cs, first, Len(cs))

RStrip(cs) ==
  LET last == CHOOSE i \in 0..Len(cs) :
                /\ \A k \in (i + 1)..Len(cs) : IsSpace(cs[k])
                /\ i = 0 \/ ~IsSpace(cs[i])
  IN  SubSeq(cs, 1, last)

Strip(cs) == RStrip(LStrip(cs))

\* ------------------------------------------------------------------------
\* Python dictionaries: functions from keys to values
\* ------------------------------------------------------------------------

\* d.get(k, default)
Get(d, k, default) == IF k \in DOMAIN d THEN d[k] ELSE default

\* {**d, **upd}
Update(d, upd) == [k \in DOMAIN d \cup DOMAIN upd |-> IF k \in DOMAIN upd THEN upd[k] ELSE d[k]]

\* Python's None where a dictionary is expected
None == [none |-> TRUE]

IsNone(d) == DOMAIN d = {"none"}

\* truth value of an Optional[dict] or of a list
Truthy(d) == ~IsNone(d) /\ DOMAIN d # {}

\* ------------------------------------------------------------------------
\* Inputs of a request and answers of the external collaborators
\* ------------------------------------------------------------------------

\* user queries (each a one-piece text)
Queries ==
  { <<"What stocks do I own?">>,
    <<"Should I buy it?">>,
    <<"what's the best one">>,
    <<"best performer by total return this month">>,
    <<"price of AAPL">>,
    <<"how is my portfolio doing">>,
    <<"thanks">>,
    <<"hello">> }

ClientIds == {"CLT-001", "CLT-999"}

\* what the portfolio spreadsheet holds for a client
PortfolioRows(client_id) ==
  IF client_id = "CLT-001"
  THEN << [symbol |-> "AAPL", security_name |-> "Apple Inc."],
          [symbol |-> "MSFT", security_name |-> "Microsoft Corporation"],
          [symbol |-> "GOOGL", security_name |-> "Alphabet Inc."] >>
  ELSE << >>

\* the planner model's answers: one decision line per flag
PortfolioLines == {"Portfolio Data Needed: YES\n", "Portfolio Data Needed: NO\n"}

MarketLines == {"Market Data Needed: YES\n", "market data needed: no\n"}

RecommendLines == {"Wants Recommendations: YES\n", "Wants Recommendations: NO\n"}

Plans ==
  { <<"Analysis: see the decisions below.\n", p, m, r>> :
      p \in PortfolioLines, m \in MarketLines, r \in RecommendLines }

\* the specialist models' answers
Answers ==
  { <<"You own AAPL, MSFT and GOOGL.">>,
    <<"AAPL is trading at $150.00 today.">>,
    <<"TSLA looks strong.">>,
    <<"I don't have access to that data.">>,
    <<"OK">> }

\* the quote reader's price per ticker, in cents
QuotePrice(ticker) == IF ticker = "AAPL" THEN 15000 ELSE 30000

\* current_price of a quote that failed
NoPrice == -1

\* ------------------------------------------------------------------------
\* The workflow state and the planner (src/src/nodes/planner_node.py)
\* ------------------------------------------------------------------------

VARIABLES
  state,    \* the GraphState dictionary threaded through the nodes
  active,   \* the nodes scheduled for the next step of the compiled graph
  trace     \* the nodes executed so far, in order

\* initial_state of run_workflow(query, client_id)
InitialState(query, client_id) ==
  [ query |-> query,
    client_id |-> client_id,
    portfolio_data |-> None,
    market_data |-> None,
    plan |-> <<>>,
    needs_portfolio |-> FALSE,
    needs_market |-> FALSE,
    wants_recommendations |-> FALSE,
    response |-> <<>>,
    validated |-> FALSE,
    messages |-> <<>> ]

\* "X: YES" in plan or "x: yes" in plan.lower()
PlanSays(decision, plan) ==
  \/ Has(decision, Chars(plan))
  \/ Contains(Lower(Spell[decision]), Lower(Chars(plan)))

portfolio_keywords ==
  { "own", "holdings", "my stocks", "my portfolio", "what stocks",
    "total value", "portfolio value", "total worth", "how much",
    "value i hold", "my total", "what do i have",
    "risk profile", "how risky", "diversified", "diversity",
    "allocation", "sector allocation" }

market_keywords ==
  { "price", "market", "news", "performance", "trading", "how is", "doing",
    "return", "gain", "loss", "profit", "which stock", "what stock",
    "stock recommendation", "should i buy", "should i sell" }

advice_keywords ==
  { "how to improve", "what should i do", "recommendations", "suggestions",
    "advice", "how can i", "should i buy", "should i sell", "optimize",
    "rebalance", "diversify", "which stock", "what stock", "recommend" }

\* the flags read from the plan text alone, without the keyword fallback for
\* wants_recommendations
PlannerFlags_from_plan_only(query, plan) ==
  [ needs_portfolio |-> PlanSays("Portfolio Data Needed: YES", plan),
    needs_market |-> PlanSays("Market Data Needed: YES", plan),
    wants_recommendations |-> PlanSays("Wants Recommendations: YES", plan) ]

\* the flags the planner derives from the plan text and the query
PlannerFlags(query, plan) ==
  With(Lower(Chars(query)), LAMBDA query_lower :
  With(PlanSays("Portfolio Data Needed: YES", plan), LAMBDA parsed_portfolio :
  With(PlanSays("Market Data Needed: YES", plan), LAMBDA parsed_market :
  With(PlanSays("Wants Recommendations: YES", plan), LAMBDA parsed_wants :
  With(~parsed_portfolio /\ ~parsed_market, LAMBDA fallback :
  With(\/ ( /\ Has("my", query_lower)
            /\ HasAny({"stock", "holding", "market", "portfolio"}, query_lower) )
       \/ HasAny({"return", "gain", "loss", "profit", "performance"}, query_lower),
       LAMBDA both :
    [ needs_portfolio |->
        IF fallback THEN HasAny(portfolio_keywords, query_lower) \/ both
        ELSE parsed_portfolio,
      needs_market |->
        IF fallback THEN HasAny(market_keywords, query_lower) \/ both
        ELSE parsed_market,
      wants_recommendations |->
        parsed_wants \/ HasAny(advice_keywords, query_lower) ]))))))

\* planner_node(state) for the plan text the model returned
planner_node(s, plan) ==
  With(PlannerFlags(Get(s, "query", <<>>), plan), LAMBDA flags :
    Update(s, [ plan |-> plan,
                needs_portfolio |-> flags.needs_portfolio,
                needs_market |-> flags.needs_market,
                wants_recommendations |-> flags.wants_recommendations ]))

\* ------------------------------------------------------------------------
\* Routing (src/src/graph/workflow.py)
\* ------------------------------------------------------------------------

\* route_after_planner testing needs_market before needs_portfolio
route_after_planner_market_first(s) ==
  IF Get(s, "needs_market", FALSE) THEN "market_agent"
  ELSE IF Get(s, "needs_portfolio", FALSE) THEN "portfolio_agent"
  ELSE "validator"

route_after_planner(s) ==
  IF Get(s, "needs_portfolio", FALSE) THEN "portfolio_agent"
  ELSE IF Get(s, "needs_market", FALSE) THEN "market_agent"
  ELSE "validator"

\* route_after_portfolio sending a run that needs market data back to itself
route_after_portfolio_loop(s) ==
  IF Get(s, "needs_market", FALSE) THEN "portfolio_agent" ELSE "validator"

route_after_portfolio(s) ==
  IF Get(s, "needs_market", FALSE) THEN "market_agent" ELSE "validator"

Nodes == {"planner", "portfolio_agent", "market_agent", "validator"}

\* the edges of the compiled graph: the nodes scheduled after node n ran
Successors(n, s) ==
  CASE n = "planner" -> {route_after_planner(s)}
    [] n = "portfolio_agent" -> {route_after_portfolio(s)}
    [] n = "market_agent" -> {"validator"}
    [] n = "validator" -> {"END"}

\* ------------------------------------------------------------------------
\* Words, tickers and small patterns
\* ------------------------------------------------------------------------

\* the string whose characters are cs
Unspell(cs) == CHOOSE s \in DOMAIN Spell : Spell[s] = cs

\* str.split(): the maximal runs of non-whitespace characters, in order;
\* SplitFrom gives the words that start at or after position i
RECURSIVE SplitFrom(_, _)
SplitFrom(cs, i) ==
  With({ k \in i..Len(cs) : ~IsSpace(cs[k]) }, LAMBDA starts :
    IF starts = {} THEN <<>>
    ELSE With(CHOOSE k \in starts : \A j \in starts : k <= j, LAMBDA b :
         With(CHOOSE k \in b..Len(cs) :
                /\ \A j \in b..k : ~IsSpace(cs[j])
                /\ k = Len(cs) \/ IsSpace(cs[k + 1]), LAMBDA e :
           <<SubSeq(cs, b, e)>> \o SplitFrom(cs, e + 1))))

Split(cs) == SplitFrom(cs, 1)

\* re.sub(r'[^\w]', '', word)
CleanWord(cs) == SelectSeq(cs, IsWordChar)

\* re.findall(r'\b[A-Z]{2,5}\b', cs), as a set of character sequences
TickerShaped(cs) ==
  { SubSeq(cs, i, j) : <<i, j>> \in
      { ij \in (1..Len(cs)) \X (1..Len(cs)) :
          /\ ij[2] - ij[1] + 1 \in 2..5
          /\ \A k \in ij[1]..ij[2] : IsUpper(cs[k])
          /\ (ij[1] = 1 \/ ~IsWordChar(cs[ij[1] - 1]))
          /\ (ij[2] = Len(cs) \/ ~IsWordChar(cs[ij[2] + 1])) } }

\* pattern positions: the index of the next character to match
AnyStart(cs) == 1..(Len(cs) + 1)

\* a literal, from any of the positions P
LitFrom(lit, cs, P) ==
  { p + Len(Spell[lit]) : p \in
      { q \in P : q + Len(Spell[lit]) - 1 <= Len(cs)
                  /\ SubSeq(cs, q, q + Len(Spell[lit]) - 1) = Spell[lit] } }

\* \s+ from any of the positions P
SpacesFrom(cs, P) ==
  { q \in 1..(Len(cs) + 1) : \E p \in P : p < q /\ \A k \in p..(q - 1) : IsSpace(cs[k]) }

\* .* from any of the positions P (no newline is crossed)
DotStarFrom(cs, P) ==
  { q \in 1..(Len(cs) + 1) : \E p \in P : p <= q /\ \A k \in p..(q - 1) : cs[k] # "\n" }

\* ------------------------------------------------------------------------
\* Portfolio node (src/src/nodes/portfolio_node.py)
\* ------------------------------------------------------------------------

\* load_portfolio_data(excel_path, client_id)
load_portfolio_data(client_id) ==
  IF PortfolioRows(client_id) = <<>>
  THEN [ error |-> "No portfolio found for client", holdings |-> <<>> ]
  ELSE [ client_id |-> client_id,
         holdings |-> PortfolioRows(client_id),
         total_holdings |-> Len(PortfolioRows(client_id)) ]

\* portfolio_node(state) for the analysis text the model returned
portfolio_node(s, analysis) ==
  Update(s, [ portfolio_data |-> load_portfolio_data(Get(s, "client_id", "")),
              response |-> analysis ])

\* ------------------------------------------------------------------------
\* Market node (src/src/nodes/market_node.py)
\* ------------------------------------------------------------------------

\* get_client_holdings(portfolio_data), as a set
get_client_holdings(portfolio_data) ==
  IF "holdings" \notin DOMAIN portfolio_data THEN {}
  ELSE { portfolio_data.holdings[i].symbol : i \in DOMAIN portfolio_data.holdings }

common_tickers ==
  { "AAPL", "MSFT", "GOOGL", "GOOG", "AMZN", "TSLA", "META", "NVDA", "AMD",
    "SPY", "QQQ", "VTI", "BND", "VXUS", "VYM", "VTEB", "VOO", "VEA",
    "NFLX", "DIS", "INTC", "CSCO", "ADBE", "CRM", "ORCL", "IBM" }

english_words_blacklist ==
  { "DATE", "YEAR", "RETURN", "GAIN", "LOSS", "HOLD", "BEST", "WORST",
    "TOP", "TOTAL", "VALUE", "PRICE", "STOCK", "HAVE", "DOES", "WHAT",
    "WHICH", "ABOUT", "FROM", "WITH", "THAT", "THIS", "THEM", "THEY",
    "SHOW", "TELL", "GIVE", "MAKE", "TAKE", "BEEN", "WERE", "WILL",
    "YOUR", "THEIR", "THERE", "WHERE", "WHEN", "WOULD", "COULD", "SHOULD",
    "BUY", "SELL" }

\* the tickers named by character sequences that are accepted as tickers
AcceptedTickers(candidates) ==
  { t \in common_tickers \ english_words_blacklist : Spell[t] \in candidates }

\* the text searched for tickers: the query, plus recent history for a short query
RECURSIVE HistoryText(_)
HistoryText(msgs) ==
  IF msgs = <<>> THEN <<>>
  ELSE (IF Head(msgs).role \in {"user", "assistant"}
        THEN <<" ">> \o Upper(Chars(Head(msgs).content)) ELSE <<>>) \o HistoryText(Tail(msgs))

\* conversation_history[-n:]
LastN(msgs, n) == SubSeq(msgs, IF Len(msgs) > n THEN Len(msgs) - n + 1 ELSE 1, Len(msgs))

is_general_recommendation(query_lower) ==
  LET from(lit, P) == LitFrom(lit, query_lower, P)
      ws(P) == SpacesFrom(query_lower, P)
      any(P) == DotStarFrom(query_lower, P)
      start == AnyStart(query_lower)
  IN \/ from("buy", any(from("stock", ws(from("which", start))))) # {}
     \/ from("buy", any(from("stock", ws(from("what", start))))) # {}
     \/ from("stock", any(from("recommend", start))) # {}
     \/ from("stock", any(from("suggest", start))) # {}
     \/ from("stock", ws(from("best", start))) # {}
     \/ from("buy", any(from("stock", ws(from("good", start))))) # {}
     \/ from("recommendation", any(from("stock", start))) # {}

\* the tickers the market node fetches quotes for
MarketTickers(s) ==
  With(Chars(Get(s, "query", <<>>)), LAMBDA query :
  With(Get(s, "portfolio_data", <<>>), LAMBDA portfolio_data :
  With(Get(s, "conversation_history", <<>>), LAMBDA history :
  With(IF Truthy(portfolio_data) /\ "holdings" \in DOMAIN portfolio_data
       THEN get_client_holdings(portfolio_data) ELSE {}, LAMBDA held :
  With(IF Len(Split(query)) <= 3 /\ history # <<>>
       THEN Upper(query) \o HistoryText(LastN(history, 4))
       ELSE Upper(query), LAMBDA context_text :
  With(Split(context_text), LAMBDA words :
  With(AcceptedTickers({ CleanWord(words[i]) : i \in DOMAIN words }), LAMBDA method1 :
  With(AcceptedTickers(TickerShaped(context_text)), LAMBDA method2 :
    IF held # {} THEN held
    ELSE IF method1 # {} THEN method1
    ELSE IF method2 # {} THEN method2
    ELSE IF is_general_recommendation(Lower(query)) THEN {"AAPL", "MSFT", "NVDA", "GOOGL"}
    ELSE {}))))))))

\* the fallback prices of get_stock_price, in cents
demo_prices ==
  [ AAPL |-> 17872, MSFT |-> 37891, GOOGL |-> 13845, AMZN |-> 14532, TSLA |-> 24284,
    META |-> 31256, NVDA |-> 49522, VTI |-> 25542, BND |-> 7485, VXUS |-> 6218,
    VYM |-> 11530, VTEB |-> 5095 ]

\* ticker.upper() in demo_prices
HasDemoPrice(ticker) == \E d \in DOMAIN demo_prices : Spell[d] = Upper(Spell[ticker])

\* get_stock_price(ticker), for a fetch that succeeds or fails (no history, or
\* an exception of the quote reader): a failed fetch falls back to the demo
\* price of the ticker and is an error entry without a price when it has none
get_stock_price(ticker, fails) ==
  IF ~fails
  THEN [ symbol |-> ticker, current_price |-> QuotePrice(ticker) ]
  ELSE IF HasDemoPrice(ticker)
  THEN [ symbol |-> ticker,
         current_price |-> demo_prices[CHOOSE d \in DOMAIN demo_prices : Spell[d] = Upper(Spell[ticker])],
         data_source |-> "demo" ]
  ELSE [ symbol |-> ticker, error |-> "Error fetching price", current_price |-> NoPrice ]

\* fetch_ticker_price(ticker) of get_multiple_stock_prices: cash is worth 1.00
fetch_ticker_price(ticker, fails) ==
  IF Upper(Spell[ticker]) = Spell["CASH"]
  THEN [ symbol |-> ticker, current_price |-> 100 ]
  ELSE get_stock_price(ticker, fails)

\* get_multiple_stock_prices(tickers), the fetches of `failed` failing
get_multiple_stock_prices(tickers, failed) ==
  [ t \in tickers |-> fetch_ticker_price(t, t \in failed) ]

\* the thread pool of get_multiple_stock_prices
MaxWorkers == 5

VARIABLES
  batch   \* one call of get_multiple_stock_prices inside the market node

\* no batch lookup is running
BatchIdle ==
  batch = [ phase |-> "idle", tickers |-> <<>>, failing |-> {}, queued |-> {},
            running |-> {}, done |-> {}, collected |-> {}, results |-> <<>>,
            market_data |-> <<>> ]

\* a market node that also loads the client's portfolio into the state
market_node_loading_portfolio(s, failed, analysis) ==
  With(MarketTickers(s), LAMBDA tickers :
    Update(s, [ market_data |-> IF tickers # {} THEN get_multiple_stock_prices(tickers, failed)
                                ELSE <<>>,
                portfolio_data |-> load_portfolio_data(Get(s, "client_id", "")),
                response |-> analysis ]))


\* market_node(state) for the quotes that failed and the analysis text returned
market_node(s, failed, analysis) ==
  With(MarketTickers(s), LAMBDA tickers :
    Update(s, [ market_data |-> IF tickers # {} THEN get_multiple_stock_prices(tickers, failed)
                                ELSE <<>>,
                response |-> analysis ]))

\* ------------------------------------------------------------------------
\* Validator tools (src/src/tools/validator_tools.py)
\* ------------------------------------------------------------------------

\* the least index of seq whose element satisfies Test, 0 when there is none
FirstIndex(seq, Test(_)) ==
  IF \E i \in DOMAIN seq : Test(seq[i])
  THEN CHOOSE i \in DOMAIN seq : Test(seq[i]) /\ \A j \in 1..(i - 1) : ~Test(seq[j])
  ELSE 0

vague_pronouns == <<"it", "that stock", "that one", "this one", "the stock", "them", "those">>

relative_terms ==
  << [ term |-> "best",
       clarification |-> "Best by what metric? (highest return, highest value, lowest risk?)",
       context_words |-> {"return", "value", "gain", "loss", "price", "performance", "profit"} ],
     [ term |-> "worst",
       clarification |-> "Worst by what metric? (lowest return, highest loss, highest volatility?)",
       context_words |-> {"return", "value", "gain", "loss", "price", "performance"} ],
     [ term |-> "top",
       clarification |-> "Top by what criterion? (return, value, gain?)",
       context_words |-> {"return", "value", "gain", "performer", "holding"} ],
     [ term |-> "most",
       clarification |-> "Most in what sense? (shares, value, percentage?)",
       context_words |-> {"shares", "value", "percentage", "allocation", "weight"} ],
     [ term |-> "first",
       clarification |-> "First in what order? (alphabetically, by value, by return?)",
       context_words |-> {"alphabetically", "value", "return", "largest", "biggest"} ] >>

time_references ==
  << [ ref |-> "recent", clarification |-> "How recent? (past week, month, quarter?)" ],
     [ ref |-> "lately", clarification |-> "What time period do you mean? (past week, month?)" ],
     [ ref |-> "previously", clarification |-> "When specifically? (last week, last month?)" ] >>

\* the query length below which a relative term is examined
ShortQueryLen == 80

\* the word count below which a comparison is incomplete
MinComparisonWords == 5

\* a detector that knows the vague pronouns only
detect_ambiguity_pronouns_only(query, conversation_history) ==
  With(Strip(Lower(Chars(query))), LAMBDA query_lower :
  LET UsesPronoun(p) == Has(p, query_lower)
  IN
  With(FirstIndex(vague_pronouns, UsesPronoun), LAMBDA pronoun :
    IF pronoun # 0 /\ conversation_history = <<>>
    THEN [ is_ambiguous |-> TRUE,
           message |-> << "Which specific stock are you referring to when you say '",
                          vague_pronouns[pronoun], "'?" >> ]
    ELSE [ is_ambiguous |-> FALSE, message |-> <<>> ]))

\* detect_ambiguity(query, conversation_history)
detect_ambiguity(query, conversation_history) ==
  With(Strip(Lower(Chars(query))), LAMBDA query_lower :
  LET UsesPronoun(p) == Has(p, query_lower)
      Unqualified(r) == /\ Has(r.term, query_lower)
                        /\ Len(query_lower) < ShortQueryLen
                        /\ ~HasAny(r.context_words, query_lower)
      Undated(r) == /\ Has(r.ref, query_lower)
                    /\ ~HasAny({"week", "month", "year", "day", "quarter"}, query_lower)
  IN
  With(FirstIndex(vague_pronouns, UsesPronoun), LAMBDA pronoun :
  With(FirstIndex(relative_terms, Unqualified), LAMBDA relative :
  With(FirstIndex(time_references, Undated), LAMBDA time :
    IF pronoun # 0 /\ conversation_history = <<>>
    THEN [ is_ambiguous |-> TRUE,
           message |-> << "Which specific stock are you referring to when you say '",
                          vague_pronouns[pronoun], "'?" >> ]
    ELSE IF relative # 0
    THEN [ is_ambiguous |-> TRUE, message |-> <<relative_terms[relative].clarification>> ]
    ELSE IF time # 0
    THEN [ is_ambiguous |-> TRUE, message |-> <<time_references[time].clarification>> ]
    ELSE IF /\ HasAny({"compared to", "versus", "vs"}, query_lower)
            /\ Len(Split(query_lower)) < MinComparisonWords
    THEN [ is_ambiguous |-> TRUE,
           message |-> <<"What are you comparing? Please specify both items.">> ]
    ELSE [ is_ambiguous |-> FALSE, message |-> <<>> ]))))

\* common English words and financial terms that look like tickers
common_words ==
  {
    "AM", "AN", "AS", "AT", "BE", "BY", "DO", "GO", "HE", "IF", "IN", "IS",
    "IT", "ME", "MY", "NO", "OF", "ON", "OR", "SO", "TO", "UP", "US", "WE",
    "YA", "THE", "AND", "FOR", "ARE", "BUT", "NOT", "YOU", "ALL", "CAN",
    "HAD", "HER", "WAS", "ONE", "OUR", "OUT", "DAY", "GET", "HAS", "HIM",
    "HIS", "HOW", "ITS", "MAY", "NEW", "NOW", "OLD", "SEE", "TWO", "WAY",
    "WHO", "BOY", "DID", "CAR", "EAT", "FAR", "FUN", "GOT", "HOT", "LET",
    "MAN", "OWN", "RAN", "SAT", "SAY", "SHE", "TOP", "TRY", "USE", "WIN",
    "YES", "YET", "BIG", "WHY", "CUT", "OFF", "PUT", "RUN", "SET", "SIT",
    "TEN", "BAD", "BAG", "BED", "BOX", "END", "FEW", "LAW", "LAY", "LEG",
    "LIE", "LOT", "LOW", "MAP", "MET", "MIX", "NOR", "ODD", "OIL", "PAY",
    "PER", "PIT", "POT", "RED", "ROW", "SIX", "SKY", "SUM", "TAX", "TEA",
    "TIP", "TON", "TOO", "TOY", "VAN", "WAR", "WET", "WON", "THAT", "WITH",
    "HAVE", "THIS", "WILL", "YOUR", "FROM", "THEY", "BEEN", "WERE", "WHAT",
    "WOULD", "THERE", "THEIR", "WHICH", "THAN", "THEM", "BEST", "EACH",
    "FIND", "GIVE", "JUST", "KNOW", "MADE", "MAKE", "MANY", "MORE", "MOST",
    "MUCH", "ONLY", "OVER", "SAID", "SAME", "SOME", "SUCH", "TAKE", "TELL",
    "THEN", "VERY", "WANT", "WELL", "WENT", "WHEN", "DOES", "COME", "GOOD",
    "HELP", "HERE", "INTO", "LAST", "LIFE", "LIKE", "LONG", "LOOK", "NEED",
    "NEXT", "OPEN", "PART", "SEEM", "SHOW", "SIDE", "SURE", "TALK", "TURN",
    "USED", "WORK", "YEAR", "ALSO", "BACK", "BOTH", "CALL", "CAME", "CASE",
    "DONE", "DOWN", "EVEN", "FACT", "FEEL", "FOUR", "FREE", "FULL", "GAVE",
    "GETS", "GOES", "GONE", "HALF", "HAND", "HEAD", "HIGH", "HOME", "KEEP",
    "KIND", "KNEW", "LATE", "LEAD", "LEFT", "LESS", "LINE", "LIST", "LIVE",
    "LOSE", "LOST", "MAIN", "MEAN", "MEET", "MIND", "MOVE", "MUST", "NAME",
    "NEAR", "ONCE", "PASS", "PAST", "PLAY", "PULL", "PUSH", "READ", "REAL",
    "REST", "RISE", "ROOM", "SAVE", "SEEN", "SELF", "SELL", "SENT", "SOON",
    "STAY", "STEP", "STOP", "TEAM", "TEND", "TEST", "TEXT", "THUS", "TOLD",
    "TOOK", "TOWN", "TREE", "TRUE", "UPON", "VIEW", "WAIT", "WALK", "WEEK",
    "WIDE", "WISH", "WORD", "WORE", "YARD", "ABOUT", "AFTER", "AGAIN",
    "BEING", "BELOW", "COULD", "DOING", "EVERY", "FIRST", "FOUND", "GOING",
    "GREAT", "GROUP", "LARGE", "LATER", "LEAVE", "MIGHT", "NEVER", "OTHER",
    "PLACE", "RIGHT", "SHALL", "SINCE", "SMALL", "STILL", "THESE", "THING",
    "THINK", "THOSE", "THREE", "TIMES", "TODAY", "UNDER", "UNTIL", "USING",
    "WANTS", "WHERE", "WHILE", "WHOSE", "WOMAN", "WORLD", "WRITE", "YEARS",
    "YOUNG", "ETF", "ETFS", "FUND", "FUNDS", "STOCK", "STOCKS", "BOND",
    "BONDS", "PRICE", "PRICES", "SHARE", "SHARES", "ASSET", "ASSETS",
    "MARKET", "CASH", "OWNS", "HOLDINGS", "RETURN", "RETURNS", "GAIN",
    "GAINS", "LOSS", "LOSSES", "VALUE", "VALUES", "TOTAL", "HOLD", "HOLDING",
    "WORTH", "PORTFOLIO", "PORTFOLIOS", "RISK", "RISKS", "PROFILE",
    "DIVERSITY", "DIVERSIFIED", "ALLOCATION", "CLT", "CLASS", "BUY", "TRADE",
    "SHOULD"
  }

\* the symbols of the holdings, when portfolio data with holdings is present
PortfolioTickers(portfolio_data) ==
  IF Truthy(portfolio_data) /\ "holdings" \in DOMAIN portfolio_data
  THEN { portfolio_data.holdings[i].symbol : i \in DOMAIN portfolio_data.holdings }
  ELSE {}

\* the keys of the market data, when present
MarketDataTickers(market_data) == IF Truthy(market_data) THEN DOMAIN market_data ELSE {}

KnownTickers(portfolio_data, market_data) ==
  PortfolioTickers(portfolio_data) \cup MarketDataTickers(market_data)

\* a fact check without the denylist of common words
UnknownTickers_without_denylist(cs, portfolio_data, market_data) ==
  { Unspell(t) : t \in
      { u \in TickerShaped(cs) :
          \A k \in KnownTickers(portfolio_data, market_data) : Spell[k] # u } }

\* ticker-shaped tokens of cs that are neither known nor common words
UnknownTickers(cs, portfolio_data, market_data) ==
  { Unspell(t) : t \in
      { u \in TickerShaped(cs) :
          /\ \A w \in common_words : Spell[w] # u
          /\ \A k \in KnownTickers(portfolio_data, market_data) : Spell[k] # u } }

\* the orders in which a Python set of strings may be iterated
Orderings(S) ==
  { seq \in [1..Cardinality(S) -> S] : \A i, j \in 1..Cardinality(S) : i # j => seq[i] # seq[j] }

\* sep.join(items), as pieces
RECURSIVE Join(_, _)
Join(sep, items) ==
  IF items = <<>> THEN <<>>
  ELSE IF Len(items) = 1 THEN <<items[1]>>
  ELSE <<items[1], sep>> \o Join(sep, Tail(items))

\* check_data_sufficiency(query, portfolio_data, market_data): the results it may
\* return (the unknown ticker it names depends on the iteration order of a set)
check_data_sufficiency(query, portfolio_data, market_data) ==
  With(Lower(Chars(query)), LAMBDA query_lower :
  With(UnknownTickers(Upper(Chars(query)), portfolio_data, market_data), LAMBDA unknown :
  LET no_holdings == \/ ~Truthy(portfolio_data)
                     \/ "holdings" \notin DOMAIN portfolio_data
                     \/ portfolio_data.holdings = <<>>
  IN IF unknown # {}
     THEN { [ is_sufficient |-> FALSE,
              message |-> IF Has("portfolio", query_lower) \/ Has("my", query_lower)
                          THEN << "Your portfolio doesn't contain ", t,
                                  ". Did you mean a different stock?" >>
                          ELSE << "I don't have market data for ", t,
                                  ". Would you like me to search for it?" >> ] : t \in unknown }
     ELSE IF /\ HasAny({"my stocks", "my holdings", "my portfolio", "what do i own"}, query_lower)
             /\ no_holdings
     THEN { [ is_sufficient |-> FALSE,
              message |-> <<"I don't have your portfolio data loaded. Please check the client ID.">> ] }
     ELSE IF HasAny({"price", "trading"}, query_lower) /\ ~Truthy(market_data)
     THEN { [ is_sufficient |-> FALSE,
              message |-> <<"I don't have current market data. There may be a connectivity issue with market data sources.">> ] }
     ELSE { [ is_sufficient |-> TRUE, message |-> <<>> ] }))

\* the position after a greedy run, from i, of characters that satisfy Test
RunEnd(cs, i, Test(_)) ==
  CHOOSE e \in i..(Len(cs) + 1) :
    /\ \A k \in i..(e - 1) : Test(cs[k])
    /\ e = Len(cs) + 1 \/ ~Test(cs[e])

DigitsEnd(cs, i) == RunEnd(cs, i, IsDigit)

Least(S) == CHOOSE x \in S : \A y \in S : x <= y

Greatest(S) == CHOOSE x \in S : \A y \in S : x >= y

\* int() of a run of decimal digits
DigitValue(c) == CHOOSE d \in 0..9 : <<"0","1","2","3","4","5","6","7","8","9">>[d + 1] = c

RECURSIVE ParseInt(_)
ParseInt(cs) ==
  IF cs = <<>> THEN 0 ELSE 10 * ParseInt(SubSeq(cs, 1, Len(cs) - 1)) + DigitValue(cs[Len(cs)])

\* str.find(sub), counted from 1: 0 when sub does not occur
Find(cs, sub) ==
  IF Contains(sub, cs)
  THEN Least({ i \in 1..(Len(cs) - Len(sub) + 1) : SubSeq(cs, i, i + Len(sub) - 1) = sub })
  ELSE 0

\* response[max(0, response.find(ticker) - 50) : response.find(ticker) + 50]
TickerContext(cs, ticker) ==
  With(Find(cs, ticker) - 1, LAMBDA found :
    SubSeq(cs, (IF found - 50 > 0 THEN found - 50 ELSE 0) + 1,
               IF found + 50 < Len(cs) THEN found + 50 ELSE Len(cs)))

IsNoDigit(c) == ~IsDigit(c)

\* the position of the first digit of cs from i on, Len(cs) + 1 when there is none
NextDigit(cs, i) == RunEnd(cs, i, IsNoDigit)

\* re.findall(r'\$?(\d+(?:\.\d{2})?)', cs) from position i, each number in cents
RECURSIVE PricesFrom(_, _)
PricesFrom(cs, i) ==
  IF i > Len(cs) THEN {}
  ELSE With(NextDigit(cs, i), LAMBDA d :
    IF d > Len(cs) THEN {}
    ELSE With(DigitsEnd(cs, d), LAMBDA e :
         With(100 * ParseInt(SubSeq(cs, d, e - 1)), LAMBDA whole :
           IF e + 2 <= Len(cs) /\ cs[e] = "." /\ IsDigit(cs[e + 1]) /\ IsDigit(cs[e + 2])
           THEN { whole + ParseInt(SubSeq(cs, e + 1, e + 2)) } \cup PricesFrom(cs, e + 3)
           ELSE { whole } \cup PricesFrom(cs, e))))

\* abs(price - actual_price) / actual_price > 0.5 and price > 1, in cents
PriceOff(price, actual_price) ==
  /\ 2 * (IF price > actual_price THEN price - actual_price ELSE actual_price - price)
       > actual_price
  /\ price > 100

\* the issues about ticker, whose quote is actual_price: one for each price in
\* its context that is off
PriceIssuesFor(cs, ticker, actual_price) ==
  { [ kind |-> "price", ticker |-> ticker, mentioned |-> price, actual |-> actual_price ] :
      price \in { q \in PricesFrom(TickerContext(cs, Spell[ticker]), 1) :
                    PriceOff(q, actual_price) } }

\* lines 328-346: for every mentioned ticker with a quote, the prices stated
\* near it that are more than half the quote's price away from it
PriceIssues(cs, portfolio_data, market_data) ==
  UNION { PriceIssuesFor(cs, k, market_data[k].current_price) :
            k \in { t \in MarketDataTickers(market_data) :
                      /\ Spell[t] \in TickerShaped(cs)
                      /\ market_data[t].current_price # NoPrice
                      /\ market_data[t].current_price > 0 } }

\* a run of digits has a digit other than 0
NonZero(cs) == \E i \in DOMAIN cs : IsDigit(cs[i]) /\ cs[i] # "0"

\* re.findall(r'([+-]?\d+(?:\.\d+)?)\%', cs) from position i: the sign of each
\* number found, "+", "-" or "0"
RECURSIVE PercentageSigns(_, _)
PercentageSigns(cs, i) ==
  IF i > Len(cs) THEN <<>>
  ELSE With(NextDigit(cs, i), LAMBDA d :
    IF d > Len(cs) THEN <<>>
    ELSE With(DigitsEnd(cs, d), LAMBDA e :
         With(IF e + 1 <= Len(cs) /\ cs[e] = "." /\ IsDigit(cs[e + 1])
              THEN DigitsEnd(cs, e + 1) ELSE e, LAMBDA f :
         With(IF f <= Len(cs) /\ cs[f] = "%" THEN f ELSE 0, LAMBDA percent :
           IF percent = 0 THEN PercentageSigns(cs, e)
           ELSE << IF ~NonZero(SubSeq(cs, d, percent - 1)) THEN "0"
                   ELSE IF d > 1 /\ cs[d - 1] = "-" THEN "-" ELSE "+" >>
                \o PercentageSigns(cs, percent + 1)))))

\* lines 349-360: more than one percentage, some above and some below zero
MixedPercentages(cs) ==
  With(PercentageSigns(cs, 1), LAMBDA signs :
    /\ Len(signs) > 1
    /\ \E n \in DOMAIN signs : signs[n] = "+"
    /\ \E n \in DOMAIN signs : signs[n] = "-")

\* the list issues of enhanced_fact_check, as a set: its order follows the
\* iteration order of a set of tickers
FactCheckIssues(cs, portfolio_data, market_data) ==
  PriceIssues(cs, portfolio_data, market_data)
  \cup (IF MixedPercentages(cs)
        THEN { [ kind |-> "percentages", ticker |-> "", mentioned |-> 0, actual |-> 0 ] }
        ELSE {})

\* enhanced_fact_check(response, portfolio_data, market_data): the results it may
\* return (the unknown tickers are joined in the iteration order of a set)
enhanced_fact_check(response, portfolio_data, market_data) ==
  With(UnknownTickers(Chars(response), portfolio_data, market_data), LAMBDA unknown :
    IF unknown = {}
    THEN { [ hallucinations |-> <<>>,
             issues |-> FactCheckIssues(Chars(response), portfolio_data, market_data),
             has_hallucinations |-> FALSE ] }
    ELSE { [ hallucinations |->
               << <<"Mentions tickers not in available data: ">> \o Join(", ", order) >>,
             issues |-> FactCheckIssues(Chars(response), portfolio_data, market_data),
             has_hallucinations |-> TRUE ] : order \in Orderings(unknown) })

vague_phrases ==
  << "I don't have access", "I cannot see", "I don't have information", "unable to provide" >>

contradiction_pairs ==
  << <<"increase", "decrease">>, <<"gain", "loss">>, <<"up", "down">>, <<"positive", "negative">> >>

\* the response length below which a response is too short
MinResponseLen == 10

\* the penalties, the validity threshold and the caveat threshold, in tenths
VaguePenalty == 2

PortfolioPenalty == 3

MarketPenalty == 2

ContradictionPenalty == 1

ValidThreshold == 5

CaveatThreshold == 7

\* the float computed by 1.0 - 0.2*v - 0.3*p - 0.2*m - 0.1*c, subtracting in that
\* order, lies just below its decimal value in these cases (v, c in 0..4)
FloatLow(v, p, m, c) == p /\ m /\ (v = 0 \/ (v = 1 /\ c >= 1))

\* confidence < threshold, for a confidence given in tenths
ConfBelow(conf, threshold) ==
  conf.tenths < threshold \/ (conf.tenths = threshold /\ conf.low)

\* a validation that accepts every response, the empty one too
validate_response_accepting_all(response, query, data_sources) ==
  [ is_valid |-> TRUE, issues |-> <<>>, confidence |-> [tenths |-> 10, low |-> FALSE] ]

\* validate_response(response, query, data_sources)
validate_response(response, query, data_sources) ==
  With(Chars(response), LAMBDA text :
  With(Lower(text), LAMBDA response_lower :
  With(Lower(Chars(query)), LAMBDA query_lower :
  With(Get(data_sources, "portfolio_data", <<>>), LAMBDA portfolio_data :
  With(Get(data_sources, "market_data", <<>>), LAMBDA market_data :
  LET IsVague(phrase) == Contains(Lower(Spell[phrase]), response_lower)
      Contradicts(pair) == Has(pair[1], response_lower) /\ Has(pair[2], response_lower)
  IN
  With(SelectSeq(vague_phrases, IsVague), LAMBDA vague :
  With(/\ Truthy(portfolio_data) /\ "holdings" \in DOMAIN portfolio_data
       /\ Len(portfolio_data.holdings) > 0
       /\ Has("portfolio", query_lower)
       /\ ~\E i \in DOMAIN portfolio_data.holdings :
             \/ Has(portfolio_data.holdings[i].symbol, text)
             \/ Has(portfolio_data.holdings[i].security_name, text),
       LAMBDA no_holding_named :
  With(/\ Truthy(market_data)
       /\ HasAny({"price", "trading", "market", "value"}, query_lower)
       /\ ~\E i \in DOMAIN text : IsDigit(text[i]),
       LAMBDA no_numbers :
  With(SelectSeq(contradiction_pairs, Contradicts), LAMBDA contradictions :
  With([ i \in DOMAIN vague |-> <<"Response contains vague statement: '", vague[i], "'">> ]
       \o (IF no_holding_named
           THEN << <<"Response doesn't reference any actual portfolio holdings">> >> ELSE <<>>)
       \o (IF no_numbers
           THEN << <<"Response lacks specific numerical data for price query">> >> ELSE <<>>)
       \o [ i \in DOMAIN contradictions |->
              << "Response contains potentially contradictory terms: '", contradictions[i][1],
                 "' and '", contradictions[i][2], "'" >> ],
       LAMBDA issues :
  With([ tenths |-> 10 - VaguePenalty * Len(vague)
                       - (IF no_holding_named THEN PortfolioPenalty ELSE 0)
                       - (IF no_numbers THEN MarketPenalty ELSE 0)
                       - ContradictionPenalty * Len(contradictions),
         low |-> FloatLow(Len(vague), no_holding_named, no_numbers, Len(contradictions)) ],
       LAMBDA raw :
    IF text = <<>> \/ Len(Strip(text)) < MinResponseLen
    THEN [ is_valid |-> FALSE,
           issues |-> << <<"Response is too short or empty">> >>,
           confidence |-> [tenths |-> 0, low |-> FALSE] ]
    ELSE [ is_valid |-> ~ConfBelow(raw, ValidThreshold),
           issues |-> issues,
           confidence |-> IF raw.tenths < 0 THEN [tenths |-> 0, low |-> FALSE] ELSE raw ]
  )))))))))))

\* check_data_coverage(query, portfolio_data, market_data)
check_data_coverage(query, portfolio_data, market_data) ==
  With(Lower(Chars(query)), LAMBDA query_lower :
  LET loaded == Truthy(portfolio_data) /\ "holdings" \in DOMAIN portfolio_data
      has_portfolio_data == loaded /\ portfolio_data.holdings # <<>>
      has_market_data == Truthy(market_data)
      missing_data ==
        (IF ~loaded THEN <<"Portfolio data not loaded">>
         ELSE IF ~has_portfolio_data THEN <<"No holdings found in portfolio">> ELSE <<>>)
        \o (IF ~has_market_data /\ HasAny({"price", "market"}, query_lower)
            THEN <<"Market data not available">> ELSE <<>>)
  IN [ has_portfolio_data |-> has_portfolio_data,
       has_market_data |-> has_market_data,
       sufficient_data |->
         IF HasAny({"own", "holdings", "stocks do i have"}, query_lower) THEN has_portfolio_data
         ELSE IF HasAny({"price of", "how is"}, query_lower) THEN has_market_data
         ELSE IF HasAny({"in my portfolio", "my holdings"}, query_lower)
              THEN has_portfolio_data /\ has_market_data
         ELSE has_portfolio_data \/ has_market_data,
       missing_data |-> missing_data ])

\* ------------------------------------------------------------------------
\* Validator node (src/src/nodes/validator_node.py)
\* ------------------------------------------------------------------------

\* the lines "- {hallucination}\n" of the warning footer
RECURSIVE HallucinationLines(_)
HallucinationLines(hallucinations) ==
  IF hallucinations = <<>> THEN <<>>
  ELSE <<"- ">> \o Head(hallucinations) \o <<"\n">> \o HallucinationLines(Tail(hallucinations))

\* the concatenation of a sequence of texts, sep between them
RECURSIVE JoinTexts(_, _)
JoinTexts(sep, texts) ==
  IF texts = <<>> THEN <<>>
  ELSE IF Len(texts) = 1 THEN texts[1]
  ELSE texts[1] \o <<sep>> \o JoinTexts(sep, Tail(texts))

\* a validator that answers an ambiguous query with its question
validator_node_answering_with_question(s) ==
  With(detect_ambiguity(Get(s, "query", <<>>), Get(s, "conversation_history", <<>>)),
       LAMBDA ambiguity :
    IF ambiguity.is_ambiguous
    THEN { Update(s, [ needs_clarification |-> TRUE,
                       clarification_message |-> ambiguity.message,
                       validated |-> FALSE,
                       response |-> ambiguity.message ]) }
    ELSE { Update(s, [ validated |-> TRUE, needs_clarification |-> FALSE ]) })

\* a validator whose stages do not return: the caveat of the confidence stage is
\* appended as well as the warning of the hallucination stage
validator_node_every_stage(s) ==
  With(Get(s, "query", <<>>), LAMBDA query :
  With(Get(s, "response", <<>>), LAMBDA response :
  With(Get(s, "portfolio_data", <<>>), LAMBDA portfolio_data :
  With(Get(s, "market_data", <<>>), LAMBDA market_data :
  With(Get(s, "conversation_history", <<>>), LAMBDA conversation_history :
  With(detect_ambiguity(query, conversation_history), LAMBDA ambiguity :
  With(validate_response(response, query,
                         [portfolio_data |-> portfolio_data, market_data |-> market_data]),
       LAMBDA validation_result :
  With(check_data_coverage(query, portfolio_data, market_data), LAMBDA coverage :
  With(validation_result.issues, LAMBDA issues :
  With(response \o <<"\n\n---\n", "Note: This response may have limitations. ">>
       \o (IF issues # <<>>
           THEN <<"Issues detected: ">> \o JoinTexts(", ", SubSeq(issues, 1, IF Len(issues) < 2 THEN Len(issues) ELSE 2))
           ELSE <<>>)
       \o (IF ~coverage.sufficient_data
           THEN <<" Missing data: ">> \o Join(", ", coverage.missing_data)
           ELSE <<>>),
       LAMBDA caveat :
     IF ambiguity.is_ambiguous
     THEN { Update(s, [ needs_clarification |-> TRUE,
                        clarification_message |-> ambiguity.message,
                        validated |-> FALSE ]) }
     ELSE
       { IF ~sufficiency.is_sufficient
         THEN Update(s, [ response |-> sufficiency.message,
                          validated |-> TRUE,
                          needs_clarification |-> FALSE ])
         ELSE IF fact_check.has_hallucinations
         THEN Update(s, [ response |->
                            (IF ~validation_result.is_valid
                                  \/ ConfBelow(validation_result.confidence, CaveatThreshold)
                             THEN caveat ELSE response)
                            \o <<"\n\n---\n", "Warning: Response validation detected potential issues:\n">>
                            \o HallucinationLines(fact_check.hallucinations),
                          validated |-> TRUE,
                          needs_clarification |-> FALSE ])
         ELSE IF ~validation_result.is_valid \/ ConfBelow(validation_result.confidence, CaveatThreshold)
         THEN Update(s, [ response |-> caveat,
                          validated |-> TRUE,
                          needs_clarification |-> FALSE ])
         ELSE Update(s, [ validated |-> TRUE, needs_clarification |-> FALSE ]) :
         <<sufficiency, fact_check>> \in
           check_data_sufficiency(query, portfolio_data, market_data)
           \X enhanced_fact_check(response, portfolio_data, market_data) }
  ))))))))))


\* validator_node(state): the states it may return
validator_node(s) ==
  With(Get(s, "query", <<>>), LAMBDA query :
  With(Get(s, "response", <<>>), LAMBDA response :
  With(Get(s, "portfolio_data", <<>>), LAMBDA portfolio_data :
  With(Get(s, "market_data", <<>>), LAMBDA market_data :
  With(Get(s, "conversation_history", <<>>), LAMBDA conversation_history :
  With(detect_ambiguity(query, conversation_history), LAMBDA ambiguity :
  With(validate_response(response, query,
                         [portfolio_data |-> portfolio_data, market_data |-> market_data]),
       LAMBDA validation_result :
  With(check_data_coverage(query, portfolio_data, market_data), LAMBDA coverage :
  With(validation_result.issues, LAMBDA issues :
  With(response \o <<"\n\n---\n", "Note: This response may have limitations. ">>
       \o (IF issues # <<>>
           THEN <<"Issues detected: ">> \o JoinTexts(", ", SubSeq(issues, 1, IF Len(issues) < 2 THEN Len(issues) ELSE 2))
           ELSE <<>>)
       \o (IF ~coverage.sufficient_data
           THEN <<" Missing data: ">> \o Join(", ", coverage.missing_data)
           ELSE <<>>),
       LAMBDA caveat :
     IF ambiguity.is_ambiguous
     THEN { Update(s, [ needs_clarification |-> TRUE,
                        clarification_message |-> ambiguity.message,
                        validated |-> FALSE ]) }
     ELSE
       { IF ~sufficiency.is_sufficient
         THEN Update(s, [ response |-> sufficiency.message,
                          validated |-> TRUE,
                          needs_clarification |-> FALSE ])
         ELSE IF fact_check.has_hallucinations
         THEN Update(s, [ response |->
                            response
                            \* (the warning line starts with a warning sign in the source)
                            \o <<"\n\n---\n", "Warning: Response validation detected potential issues:\n">>
                            \o HallucinationLines(fact_check.hallucinations),
                          validated |-> TRUE,
                          needs_clarification |-> FALSE ])
         ELSE IF ~validation_result.is_valid \/ ConfBelow(validation_result.confidence, CaveatThreshold)
         THEN Update(s, [ response |-> caveat,
                          validated |-> TRUE,
                          needs_clarification |-> FALSE ])
         ELSE Update(s, [ validated |-> TRUE, needs_clarification |-> FALSE ]) :
         <<sufficiency, fact_check>> \in
           check_data_sufficiency(query, portfolio_data, market_data)
           \X enhanced_fact_check(response, portfolio_data, market_data) }
  ))))))))))

\* ------------------------------------------------------------------------
\* The deliberation (src/src/workflows/trading_workflow.py)
\* ------------------------------------------------------------------------

\* agents of create_fast_6agent_team, in the order the team is given them
Participants ==
  <<"OrganiserAgent", "RiskManager", "DataAnalyst", "QuantitativeAnalyst",
    "StrategyDeveloper", "ReportAgent">>

\* max_turns of the RoundRobinGroupChat
max_turns == 25

\* the number of distinct counted speakers at which the loop stops
SpeakerQuota == 6

\* the number of consumed messages at which the loop stops
MessageCeiling == 30

\* tool rounds (a call and its result) one participant makes in one turn
MaxToolRounds == 2

StockSymbols == {"MSFT"}

Questions == {"Should I buy"}

\* portfolio_data: None, or holdings that do not include the symbol
PortfolioInputs == { None, [holdings |-> [AAPL |-> [shares |-> 10]]] }

\* portfolio_context (lines 87-94) for holdings without the symbol
portfolio_context(symbol, portfolio_data) ==
  IF ~IsNone(portfolio_data) /\ Truthy(Get(portfolio_data, "holdings", None))
  THEN <<"\n\nPORTFOLIO CONTEXT: User does NOT currently own ", symbol,
         ". This would be a NEW position.">>
  ELSE <<>>

\* enhanced_question (lines 98-108)
enhanced_question(symbol, question, portfolio_data) ==
  <<"TRADING ANALYSIS REQUEST: ", question, " for ", symbol>>
  \o portfolio_context(symbol, portfolio_data)
  \o <<"\n\nAGENT WORKFLOW:\n1. OrganiserAgent: Get current market data for ", symbol,
       "\n2. RiskManager: Assess position risk\n3. DataAnalyst: Research fundamentals\n",
       "4. QuantitativeAnalyst: Analyze technical signals\n",
       "5. StrategyDeveloper: Recommend strategy\n",
       "6. ReportAgent: Provide final recommendation\n\n",
       "Each agent should respond with their analysis. Start the analysis now.">>

\* the task message the stream yields first
TaskMessage(symbol, question, portfolio_data) ==
  [ source |-> "user", content |-> enhanced_question(symbol, question, portfolio_data) ]

\* str(message.content) of a tool call request and of tool execution results
ToolCallTexts == { <<"[FunctionCall(id='call_1', arguments='{}', name='tool')]">> }

ToolResultTexts ==
  { <<"[FunctionExecutionResult(content='ok', name='tool', call_id='call_1', is_error=False)]">>,
    <<"[FunctionExecutionResult(content='Report ready. FINAL_ANALYSIS_COMPLETE', name='tool', call_id='call_1', is_error=False)]">> }

\* what a participant other than ReportAgent may write
AgentTexts ==
  { <<"Analysis ready. MARKET_DATA_COMPLETE">>,
    <<"RECOMMENDATION: BUY\nCONFIDENCE LEVEL: 8/10\nFINAL_ANALYSIS_COMPLETE">> }

VARIABLES
  team,             \* the group chat behind result_stream: turn, tool rounds, pending call
  pc,               \* where run_fast_6agent_analysis is: "idle", "loop", "stopped", "done"
  stock_symbol,     \* the symbol under analysis
  message_count,    \* messages consumed from the stream
  all_messages,     \* the consumed messages, in order
  agent_responses,  \* the sources of the counted messages, in order
  agent_outputs,    \* source -> content of its last counted message
  final_report,     \* content of ReportAgent's counted message
  recommendation,   \* None or the extracted recommendation
  confidence,       \* None or the extracted confidence
  result            \* None or the dictionary returned

teamvars ==
  <<team, pc, stock_symbol, message_count, all_messages, agent_responses,
    agent_outputs, final_report, recommendation, confidence, result>>

\* the locals of run_fast_6agent_analysis before the loop (lines 118-128)
AnalysisStart ==
  /\ message_count = 0
  /\ all_messages = <<>>
  /\ agent_responses = <<>>
  /\ agent_outputs = <<>>
  /\ final_report = <<>>
  /\ recommendation = None
  /\ confidence = None
  /\ result = None

\* no deliberation is running
TeamIdle ==
  /\ pc = "idle"
  /\ team = [turn |-> 0, rounds |-> 0, calling |-> FALSE, task |-> <<>>]
  /\ stock_symbol = ""
  /\ AnalysisStart

\* ------------------------------------------------------------------------
\* One request through the compiled workflow (create_workflow, run_workflow)
\* ------------------------------------------------------------------------

\* the number of node executions after which the graph engine gives up
MaxSteps == 6

wfvars == <<state, active, trace>>

batchvars == <<batch>>

VARIABLES
  request   \* what surrounds the workflow of one request: the exception thrown
            \* inside it and raised by it, and the answer of the service and the route

VARIABLES
  sessions,            \* SessionService.sessions: session id -> session data
  now,                 \* datetime.now(), in hours
  active_connections,  \* ConnectionManager.active_connections: session id -> websocket
  sockets              \* each websocket: its session id, the position of its endpoint
                       \* and the status messages it has received

backendvars == <<sessions, now, active_connections, sockets>>

\* the empty dict
NoEntries == [ k \in {} |-> k ]

\* the websockets that may connect
Sockets == {1, 2, 3}

NoSocket == [ session_id |-> "", phase |-> "new", received |-> 0 ]

\* the session service and the connection manager as constructed
BackendIdle ==
  /\ sessions = NoEntries
  /\ now = 0
  /\ active_connections = NoEntries
  /\ sockets = [ websocket \in Sockets |-> NoSocket ]

VARIABLES
  cleaning   \* a text under marker stripping: the function that strips it, the
             \* passes made and whether the last pass changed the text

cleanvars == <<cleaning>>

NotCleaning == cleaning = [ by |-> "", text |-> <<>>, passes |-> 0, changed |-> FALSE ]

requestvars == <<request, backendvars, cleanvars>>

\* no request has been received
NoRequest ==
  [ phase |-> "idle", backend |-> "", query |-> <<>>, client_id |-> "",
    conversation_history |-> <<>>,
    thrown |-> None, raised |-> None, envelope |-> None, http |-> None ]

\* run_workflow is called by itself and its inference calls succeed
DirectCall == request = NoRequest /\ BackendIdle /\ NotCleaning

vars == <<wfvars, teamvars, batchvars, requestvars>>

WorkflowInit ==
  /\ state \in { InitialState(query, client_id) : query \in Queries, client_id \in ClientIds }
  /\ active = {"planner"}
  /\ trace = <<>>
  /\ TeamIdle
  /\ BatchIdle
  /\ DirectCall

\* node n has run and returned new_state: its outgoing edges are followed
Ran(n, new_state) ==
  /\ state' = new_state
  /\ trace' = Append(trace, n)
  /\ active' = (active \ {n}) \cup Successors(n, new_state)
  /\ UNCHANGED <<teamvars, batchvars, requestvars>>

Schedulable(n) == n \in active /\ Len(trace) < MaxSteps

PlannerStep ==
  /\ Schedulable("planner")
  /\ \E plan \in Plans : Ran("planner", planner_node(state, plan))

PortfolioStep ==
  /\ Schedulable("portfolio_agent")
  /\ \E analysis \in Answers : Ran("portfolio_agent", portfolio_node(state, analysis))

MarketStep ==
  /\ Schedulable("market_agent")
  /\ \E analysis \in Answers :
       \E failed \in { F \in SUBSET MarketTickers(state) : Cardinality(F) <= 1 } :
         Ran("market_agent", market_node(state, failed, analysis))

ValidatorStep ==
  /\ Schedulable("validator")
  /\ \E new_state \in validator_node(state) : Ran("validator", new_state)

WorkflowNext == PlannerStep \/ PortfolioStep \/ MarketStep \/ ValidatorStep

Spec == WorkflowInit /\ [][WorkflowNext]_vars

\* the graph engine runs a scheduled node: every step of WorkflowNext is such a step
RunsScheduledNode == \E n \in Nodes : Schedulable(n) /\ trace' = Append(trace, n)

\* the engine does not stop while a node is scheduled
FairSpec == Spec /\ WF_trace(RunsScheduledNode)

\* ------------------------------------------------------------------------
\* Properties of the workflow
\* ------------------------------------------------------------------------

\* how often node n has executed in this run
NodeRuns(n) == Cardinality({ i \in DOMAIN trace : trace[i] = n })

\* the run has reached END
Ended == active = {"END"}

\* C1: for every flag combination the planner sets, a run executes each of the
\* four node types at most once and reaches END.
C1_EachNodeOnceAndEnds ==
  /\ [](\A n \in Nodes : NodeRuns(n) <= 1)
  /\ <>Ended

\* a run with both flags set has ended after executing all four nodes
C1_Witness ==
  /\ Ended
  /\ state.needs_portfolio /\ state.needs_market
  /\ \A n \in Nodes : NodeRuns(n) = 1

\* the node sequence the two planner flags stand for
RouteOf(needs_portfolio, needs_market) ==
  CASE needs_portfolio /\ needs_market -> <<"planner", "portfolio_agent", "market_agent", "validator">>
    [] needs_portfolio /\ ~needs_market -> <<"planner", "portfolio_agent", "validator">>
    [] ~needs_portfolio /\ needs_market -> <<"planner", "market_agent", "validator">>
    [] OTHER -> <<"planner", "validator">>

\* C2: the node sequence of a run is fixed by the two planner flags alone
\* ((F,F): planner, validator; (T,F): planner, portfolio_agent, validator;
\* (F,T): planner, market_agent, validator; (T,T): all four in order), and at
\* every moment exactly one node is scheduled, so no two nodes are active at once.
C2_RouteFixedByFlags ==
  /\ Cardinality(active) = 1
  /\ trace # <<>> =>
       LET route == RouteOf(state.needs_portfolio, state.needs_market)
       IN /\ Len(trace) <= Len(route)
          /\ trace = SubSeq(route, 1, Len(trace))
          /\ active = { IF Len(trace) = Len(route) THEN "END" ELSE route[Len(trace) + 1] }

\* a market-only run has ended: planner, market_agent, validator
C2_Witness ==
  /\ Ended
  /\ ~state.needs_portfolio /\ state.needs_market
  /\ trace = <<"planner", "market_agent", "validator">>

\* C3: when the ambiguity detector flags the query, the request ends with a
\* clarification request and neither the portfolio node nor the market node has
\* executed in that run.
C3_NoSpecialistWhenAmbiguous ==
  (Ended /\ detect_ambiguity(state.query, Get(state, "conversation_history", <<>>)).is_ambiguous)
    => /\ Get(state, "needs_clarification", FALSE)
       /\ Get(state, "clarification_message", <<>>) # <<>>
       /\ NodeRuns("portfolio_agent") = 0
       /\ NodeRuns("market_agent") = 0

\* text a starts with text b (compared on the characters)
StartsWithText(a, b) == StartsWith(Chars(a), Chars(b))

\* C4: on every path through the validator the response it returns starts with
\* the response it received: a footer may be appended, the body is never replaced.
C4_ValidatorOnlyAppends ==
  [][ValidatorStep => StartsWithText(state'.response, state.response)]_wfvars

\* ------------------------------------------------------------------------
\* Patterns of the deliberation's extractor
\* (src/src/workflows/trading_workflow.py, re.search on the report text)
\* ------------------------------------------------------------------------

\* a literal at position i, letter case ignored (re.IGNORECASE)
LitAt(cs, i, lit) ==
  /\ i >= 1
  /\ i + Len(Spell[lit]) - 1 <= Len(cs)
  /\ Upper(SubSeq(cs, i, i + Len(Spell[lit]) - 1)) = Upper(Spell[lit])

\* the position after \*?\*? from i
StarsEnd(cs, i) ==
  IF i <= Len(cs) /\ cs[i] = "*"
  THEN (IF i + 1 <= Len(cs) /\ cs[i + 1] = "*" THEN i + 2 ELSE i + 1)
  ELSE i

SpacesEnd(cs, i) == RunEnd(cs, i, IsSpace)

\* \b at position i: exactly one of the characters around it is a word character
Boundary(cs, i) ==
  (i > 1 /\ IsWordChar(cs[i - 1])) # (i <= Len(cs) /\ IsWordChar(cs[i]))

\* re.search(r'\bWORD\b', cs, re.IGNORECASE) finds something
WordSearch(cs, word) ==
  \E i \in 1..Len(cs) :
    LitAt(cs, i, word) /\ Boundary(cs, i) /\ Boundary(cs, i + Len(Spell[word]))

\* a search that found nothing, and one that captured the characters group
NoMatch == [found |-> FALSE, group |-> <<>>]

Match(group) == [found |-> TRUE, group |-> group]

\* the captured characters of cs from p up to q, q excluded
Capture(cs, p, q) == Match(SubSeq(cs, p, q - 1))

\* [A-Z\s\-\'] under re.IGNORECASE
RecClass(c) == IsUpper(c) \/ IsLower(c) \/ IsSpace(c) \/ c = "-" \/ c = "'"

\* ends q of ([A-Z\s\-\']+?)(?:\n|$) for a group that starts at p
RecGroupEnds(cs, p) ==
  { q \in (p + 1)..(Len(cs) + 1) :
      /\ \A k \in p..(q - 1) : RecClass(cs[k])
      /\ q = Len(cs) + 1 \/ cs[q] = "\n" }

\* starts p of the group for the occurrence of RECOMMENDATION: at i:
\* \s* gives back whitespace to the group when the longer run fails
RecGroupStarts(cs, i) ==
  With(StarsEnd(cs, i + 15), LAMBDA r :
    { p \in r..SpacesEnd(cs, r) : RecGroupEnds(cs, p) # {} })

\* re.search(r'RECOMMENDATION:\*?\*?\s*([A-Z\s\-\']+?)(?:\n|$)', cs,
\*           re.IGNORECASE | re.MULTILINE)
rec_match(cs) ==
  With({ i \in 1..Len(cs) :
           LitAt(cs, i, "RECOMMENDATION:") /\ RecGroupStarts(cs, i) # {} }, LAMBDA starts :
    IF starts = {} THEN NoMatch
    ELSE With(Greatest(RecGroupStarts(cs, Least(starts))), LAMBDA p :
           Capture(cs, p, Least(RecGroupEnds(cs, p)))))

\* where (YES|NO) is tried for the occurrence of ANSWER: at i
AnswerAt(cs, i) == SpacesEnd(cs, StarsEnd(cs, SpacesEnd(cs, i + 7)))

\* re.search(r'ANSWER:\s*\*?\*?\s*(YES|NO)', cs, re.IGNORECASE)
answer_match(cs) ==
  With({ i \in 1..Len(cs) :
           /\ LitAt(cs, i, "ANSWER:")
           /\ LitAt(cs, AnswerAt(cs, i), "YES") \/ LitAt(cs, AnswerAt(cs, i), "NO") },
       LAMBDA starts :
    IF starts = {} THEN NoMatch
    ELSE With(AnswerAt(cs, Least(starts)), LAMBDA j :
           Capture(cs, j, IF LitAt(cs, j, "YES") THEN j + 3 ELSE j + 2)))

\* re.search(r'\b(STRONG\s+)?BUY\b', cs, re.IGNORECASE) finds something
BuySearch(cs) ==
  \/ WordSearch(cs, "BUY")
  \/ \E i \in 1..Len(cs) :
       /\ LitAt(cs, i, "STRONG") /\ Boundary(cs, i)
       /\ SpacesEnd(cs, i + 6) > i + 6
       /\ LitAt(cs, SpacesEnd(cs, i + 6), "BUY")
       /\ Boundary(cs, SpacesEnd(cs, i + 6) + 3)

\* where (\d+) is tried for the occurrence of CONFIDENCE at i in
\* CONFIDENCE\s+LEVEL:\*?\*?\s*(\d+)/10; 0 when LEVEL: does not follow
LevelDigitsAt(cs, i) ==
  With(SpacesEnd(cs, i + 10), LAMBDA k :
    IF k > i + 10 /\ LitAt(cs, k, "LEVEL:")
    THEN SpacesEnd(cs, StarsEnd(cs, k + 6))
    ELSE 0)

\* the digits that start at k and run up to the literal tail
DigitsBefore(cs, k, tail) ==
  /\ k >= 1
  /\ DigitsEnd(cs, k) > k
  /\ StartsWith(SubSeq(cs, DigitsEnd(cs, k), Len(cs)), Spell[tail])

\* re.search(r'CONFIDENCE\s+LEVEL:\*?\*?\s*(\d+)/10', cs, re.IGNORECASE)
conf_level_match(cs) ==
  With({ i \in 1..Len(cs) :
           /\ LitAt(cs, i, "CONFIDENCE")
           /\ DigitsBefore(cs, LevelDigitsAt(cs, i), "/10") }, LAMBDA starts :
    IF starts = {} THEN NoMatch
    ELSE With(LevelDigitsAt(cs, Least(starts)), LAMBDA k :
           Capture(cs, k, DigitsEnd(cs, k))))

IsColonOrSpace(c) == c = ":" \/ IsSpace(c)

\* where (\d+) is tried for the occurrence of CONFIDENCE at i in
\* (?:CONFIDENCE|Confidence)[:\s]+\*?\*?\s*(\d+)%; 0 when [:\s]+ fails
PercentDigitsAt(cs, i) ==
  With(RunEnd(cs, i + 10, IsColonOrSpace), LAMBDA k :
    IF k > i + 10 THEN SpacesEnd(cs, StarsEnd(cs, k)) ELSE 0)

\* re.search(r'(?:CONFIDENCE|Confidence)[:\s]+\*?\*?\s*(\d+)%', cs, re.IGNORECASE)
conf_percent_match(cs) ==
  With({ i \in 1..Len(cs) :
           /\ LitAt(cs, i, "CONFIDENCE")
           /\ DigitsBefore(cs, PercentDigitsAt(cs, i), "%") }, LAMBDA starts :
    IF starts = {} THEN NoMatch
    ELSE With(PercentDigitsAt(cs, Least(starts)), LAMBDA k :
           Capture(cs, k, DigitsEnd(cs, k))))

\* (\d+)/10(?:\s|$) from k
OutOfTenAt(cs, k) ==
  /\ DigitsBefore(cs, k, "/10")
  /\ With(DigitsEnd(cs, k) + 3, LAMBDA t : t = Len(cs) + 1 \/ IsSpace(cs[t]))

\* re.search(r'(?:^|\s)(\d+)/10(?:\s|$)', cs, re.MULTILINE): the digits
\* start a line or follow a whitespace character
conf_out_of_ten_match(cs) ==
  With({ k \in 1..Len(cs) :
           /\ k = 1 \/ IsSpace(cs[k - 1])
           /\ OutOfTenAt(cs, k) }, LAMBDA starts :
    IF starts = {} THEN NoMatch
    ELSE Capture(cs, Least(starts), DigitsEnd(cs, Least(starts))))

\* where .*?(\d+)(?:/10|%) succeeds after the occurrence of confidence at i:
\* positions of the same line
AnywhereDigitsAt(cs, i) ==
  { j \in (i + 10)..Len(cs) :
      /\ \A k \in (i + 10)..(j - 1) : cs[k] # "\n"
      /\ DigitsBefore(cs, j, "/10") \/ DigitsBefore(cs, j, "%") }

\* re.search(r'(?:confidence|CONFIDENCE).*?(\d+)(?:/10|%)', cs, re.IGNORECASE)
conf_anywhere_match(cs) ==
  With({ i \in 1..Len(cs) :
           LitAt(cs, i, "confidence") /\ AnywhereDigitsAt(cs, i) # {} }, LAMBDA starts :
    IF starts = {} THEN NoMatch
    ELSE With(Least(AnywhereDigitsAt(cs, Least(starts))), LAMBDA j :
           Capture(cs, j, DigitsEnd(cs, j))))

\* Optional values of the extractor: None or a value
Some(v) == [value |-> v]

\* the recommendation for the text of a RECOMMENDATION: line (lines 163-190)
RecommendationOfLine(rec_text) ==
  With(Upper(rec_text), LAMBDA rec_upper :
  With(Split(rec_text), LAMBDA words :
      IF Has("DON'T BUY", rec_upper) \/ Has("DONT BUY", rec_upper) \/ Has("DO NOT BUY", rec_upper)
        THEN "AVOID"
      ELSE IF Has("DON'T SELL", rec_upper) \/ Has("DONT SELL", rec_upper) THEN "HOLD"
      ELSE IF Has("WAIT", rec_upper) THEN "WAIT"
      ELSE IF Has("AVOID", rec_upper) THEN "AVOID"
      ELSE IF Has("HOLD", rec_upper) THEN "HOLD"
      ELSE IF Has("STRONG BUY", rec_upper) THEN "STRONG BUY"
      ELSE IF Has("BUY", rec_upper) THEN "BUY"
      ELSE IF Has("SELL", rec_upper) THEN "SELL"
      ELSE IF words # <<>> THEN Unspell(Upper(words[1])) ELSE "HOLD"))

\* an extraction that scans the whole text for keywords before it looks at
\* the RECOMMENDATION: label
ExtractRecommendation_keywords_first(content, held) ==
  IF BuySearch(content) THEN Some("BUY")
  ELSE IF WordSearch(content, "SELL") THEN Some("SELL")
  ELSE IF WordSearch(content, "HOLD") THEN Some("HOLD")
  ELSE With(rec_match(content), LAMBDA found :
         IF found.found THEN Some(RecommendationOfLine(Strip(found.group))) ELSE held)

\* the recommendation the loop extracts from a ReportAgent message
\* (lines 159-210); held is what the loop extracted before
ExtractRecommendation(content, held) ==
  With(rec_match(content), LAMBDA found :
  With(IF found.found THEN Some(RecommendationOfLine(Strip(found.group))) ELSE held,
       LAMBDA first :
  With(answer_match(content), LAMBDA answer :
      IF ~IsNone(first) /\ first.value # "" THEN first
      ELSE IF answer.found
        THEN Some(IF Upper(answer.group) = Spell["YES"] THEN "BUY" ELSE "WAIT")
      ELSE IF BuySearch(content) THEN Some("BUY")
      ELSE IF WordSearch(content, "SELL") THEN Some("SELL")
      ELSE IF WordSearch(content, "HOLD") THEN Some("HOLD")
      ELSE first)))

\* the confidence the loop extracts from a ReportAgent message (lines 212-230)
ExtractConfidence(content, held) ==
  With(conf_level_match(content), LAMBDA level :
  With(conf_percent_match(content), LAMBDA percent :
  With(conf_out_of_ten_match(content), LAMBDA out_of_ten :
    IF level.found THEN Some(ParseInt(level.group) * 10)
    ELSE IF percent.found THEN Some(ParseInt(percent.group))
    ELSE IF out_of_ten.found THEN Some(ParseInt(out_of_ten.group) * 10)
    ELSE held)))

\* str.replace(marker, ""): every occurrence removed, left to right
RECURSIVE Remove(_, _)
Remove(cs, marker) ==
  With({ i \in 1..(Len(cs) - Len(marker) + 1) :
           SubSeq(cs, i, i + Len(marker) - 1) = marker }, LAMBDA starts :
    IF starts = {} THEN cs
    ELSE With(Least(starts), LAMBDA i :
           SubSeq(cs, 1, i - 1) \o Remove(SubSeq(cs, i + Len(marker), Len(cs)), marker)))

debug_markers ==
  << "FINAL_ANALYSIS_COMPLETE",
     "RISK_ANALYSIS_COMPLETE",
     "MARKET_DATA_COMPLETE",
     "QUANTITATIVE_ANALYSIS_COMPLETE",
     "STRATEGY_DEVELOPMENT_COMPLETE",
     "DATA_ANALYSIS_COMPLETE" >>

\* for marker in debug_markers[n:]: report = report.replace(marker, "").strip()
RECURSIVE StripMarkersFrom(_, _)
StripMarkersFrom(report, n) ==
  IF n > Len(debug_markers) THEN report
  ELSE StripMarkersFrom(Strip(Remove(report, Spell[debug_markers[n]])), n + 1)

\* the clean-up of final_report after the loop (lines 255-266)
CleanReport(report) ==
  IF report # <<>> THEN StripMarkersFrom(report, 1) ELSE report

\* the recommendation returned when nothing stands in for a failed extraction
DefaultRecommendation_without_default(extracted, report) ==
  IF ~IsNone(extracted) THEN extracted.value ELSE ""

\* the recommendation returned (lines 268-284); report is the cleaned final_report
DefaultRecommendation(extracted, report) ==
  IF ~IsNone(extracted) /\ extracted.value # "" THEN extracted.value
  ELSE IF report # <<>>
    THEN With(Upper(report), LAMBDA report_upper :
           IF Has("STRONG BUY", report_upper) \/ Has("RECOMMEND BUYING", report_upper)
             THEN "BUY"
           ELSE IF Has("AVOID", report_upper) \/ Has("DO NOT BUY", report_upper)
             THEN "AVOID"
           ELSE "HOLD")
  ELSE "HOLD"

ReportConfidence == 70

NoReportConfidence == 50

\* the confidence returned (lines 286-301)
DefaultConfidence(extracted, report) ==
  IF ~IsNone(extracted) THEN extracted.value
  ELSE IF report # <<>>
    THEN With(conf_anywhere_match(report), LAMBDA conf_match :
         With(ParseInt(conf_match.group), LAMBDA val :
           IF conf_match.found
           THEN (IF val <= 10 THEN val * 10 ELSE val)
           ELSE ReportConfidence))
  ELSE NoReportConfidence

\* final_report[:500]
SummaryLen == 500

\* the dictionary run_fast_6agent_analysis returns (lines 307-322)
AnalysisResult(symbol, rec, conf, report, outputs, messages) ==
  [ symbol |-> symbol,
    recommendation |-> rec,
    confidence |-> conf,
    summary |-> IF report # <<>>
                THEN SubSeq(report, 1, IF Len(report) < SummaryLen
                                       THEN Len(report) ELSE SummaryLen)
                ELSE Spell["Analysis completed"],
    execution_plan |-> [ entry_price |-> "See report", stop_loss |-> "See report",
                         target_price |-> "See report", timeline |-> "See report" ],
    agent_outputs |-> outputs,
    final_report |-> report,
    messages |-> messages ]

\* what ReportAgent may write
ReportTexts ==
  { <<"RECOMMENDATION: BUY\nCONFIDENCE LEVEL: 8/10\nFINAL_ANALYSIS_COMPLETE">>,
    <<"**RECOMMENDATION:** STRONG BUY - MSFT\n**CONFIDENCE LEVEL:** 9/10">>,
    <<"RECOMMENDATION: DON'T BUY\nConfidence: 85%">>,
    <<"RECOMMENDATION: Accumulate\nCONFIDENCE LEVEL: 11/10">>,
    <<"ANSWER: NO\nconfidence is 7/10 overall">>,
    <<"I would sell this stock.">>,
    <<"Nothing to add.">>,
    <<"Confidence: 150%\nWe recommend buying.">>,
    <<"My confidence in this call: 3%">>,
    <<"FINAL_ANALYSIS_COMPLETE">>,
    <<"RECOMMENDATION: SELL\nCONFIDENCE LEVEL: 0/10">>,
    <<"RECOMMENDATION: wait for a pullback\nConfidence: 60%">>,
    <<"RECOMMENDATION: \nBUY now!">>,
    <<"RECOMMENDATION: DON'T SELL\n6/10">> }

\* ------------------------------------------------------------------------
\* The message loop of run_fast_6agent_analysis (lines 130-250) and its
\* return (lines 252-322).  The stream is the team's: the task message, then,
\* turn by turn in the order of the participants, the speaker's tool calls and
\* results followed by its one response.  Every item the loop receives before
\* it stops has a content.
\* ------------------------------------------------------------------------

\* the participant whose turn it is
Speaker(turn) == Participants[((turn - 1) % Len(Participants)) + 1]

\* a count that takes tool calls and tool results for responses
Counted_any_agent_message(source, content) == source # "user"

\* lines 146-147: the message counts as a participant having spoken
Counted(source, content) ==
  /\ source # "user"
  /\ ~StartsWith(content, Spell["[FunctionCall"])
  /\ ~StartsWith(content, Spell["[FunctionExecutionResult"])

\* the elements of a list
Range(seq) == { seq[i] : i \in DOMAIN seq }

\* a stop that waits for more speakers than there are participants
LoopBreaks_after_quota(responses, content) ==
  Cardinality(Range(responses)) > SpeakerQuota \/ Has("FINAL_ANALYSIS_COMPLETE", content)

\* line 243: all participants have responded or the final report is in
LoopBreaks(responses, content) ==
  Cardinality(Range(responses)) >= SpeakerQuota \/ Has("FINAL_ANALYSIS_COMPLETE", content)

\* a safety stop one message late
SafetyStop_after_ceiling(count) == count > MessageCeiling

\* line 248: the safety stop
SafetyStop(count) == count >= MessageCeiling

\* the extraction for every text ReportAgent may write, from a loop that has
\* extracted nothing before
Extraction ==
  [ text \in ReportTexts |->
      [ recommendation |-> ExtractRecommendation(Chars(text), None),
        confidence |-> ExtractConfidence(Chars(text), None) ] ]

\* lines 152-230 for a counted message of ReportAgent
ExtractionOf(text, held_recommendation, held_confidence) ==
  IF IsNone(held_recommendation) /\ IsNone(held_confidence) /\ text \in DOMAIN Extraction
  THEN Extraction[text]
  ELSE [ recommendation |-> ExtractRecommendation(Chars(text), held_recommendation),
         confidence |-> ExtractConfidence(Chars(text), held_confidence) ]

\* one iteration of the loop, for the message the stream yields
Consume(message) ==
  \E content \in {Chars(message.content)} :
    LET counted == Counted(message.source, content)
        responses == IF counted THEN Append(agent_responses, message.source)
                     ELSE agent_responses
        report == counted /\ message.source = "ReportAgent"
    IN  /\ message_count' = message_count + 1
        /\ all_messages' = Append(all_messages, message)
        /\ agent_responses' = responses
        /\ agent_outputs' = IF counted
                            THEN Update(agent_outputs, [ s \in {message.source} |-> message.content ])
                            ELSE agent_outputs
        /\ final_report' = IF report THEN message.content ELSE final_report
        /\ \E extraction \in
              { IF report THEN ExtractionOf(message.content, recommendation, confidence)
                ELSE [recommendation |-> recommendation, confidence |-> confidence] } :
              /\ recommendation' = extraction.recommendation
              /\ confidence' = extraction.confidence
        /\ pc' = IF LoopBreaks(responses, content) \/ SafetyStop(message_count + 1)
                 THEN "stopped" ELSE "loop"
        /\ UNCHANGED <<stock_symbol, result, wfvars, batchvars, requestvars>>

\* the stream yields the task message
TaskStep ==
  /\ pc = "loop" /\ team.turn = 0
  /\ Consume(team.task)
  /\ team' = [team EXCEPT !.turn = 1]

\* the speaker requests a tool call
ToolCallStep ==
  /\ pc = "loop" /\ team.turn \in 1..max_turns
  /\ ~team.calling /\ team.rounds < MaxToolRounds
  /\ \E text \in ToolCallTexts : Consume([source |-> Speaker(team.turn), content |-> text])
  /\ team' = [team EXCEPT !.calling = TRUE]

\* the tool call of the speaker has run
ToolResultStep ==
  /\ pc = "loop" /\ team.calling
  /\ \E text \in ToolResultTexts : Consume([source |-> Speaker(team.turn), content |-> text])
  /\ team' = [team EXCEPT !.calling = FALSE, !.rounds = @ + 1]

\* the speaker responds and the turn passes to the next participant
ResponseStep ==
  /\ pc = "loop" /\ team.turn \in 1..max_turns
  /\ ~team.calling
  /\ \E text \in (IF Speaker(team.turn) = "ReportAgent" THEN ReportTexts ELSE AgentTexts) :
       Consume([source |-> Speaker(team.turn), content |-> text])
  /\ team' = [team EXCEPT !.turn = @ + 1, !.rounds = 0]

\* lines 252-322: the report is cleaned, the defaults are applied and the
\* result is returned
ReturnStep ==
  /\ pc = "stopped"
  /\ \E report \in {CleanReport(Chars(final_report))} :
       result' = AnalysisResult(stock_symbol,
                                DefaultRecommendation(recommendation, report),
                                DefaultConfidence(confidence, report),
                                report, agent_outputs, all_messages)
  /\ pc' = "done"
  /\ UNCHANGED <<team, stock_symbol, message_count, all_messages, agent_responses,
                 agent_outputs, final_report, recommendation, confidence, wfvars,
                 batchvars, requestvars>>

\* no request is in the workflow
WorkflowIdle ==
  /\ state = InitialState(<<>>, "")
  /\ active = {}
  /\ trace = <<>>

TeamInit ==
  /\ WorkflowIdle
  /\ BatchIdle
  /\ DirectCall
  /\ pc = "loop"
  /\ stock_symbol \in StockSymbols
  /\ \E question \in Questions, portfolio_data \in PortfolioInputs :
       team = [ turn |-> 0, rounds |-> 0, calling |-> FALSE,
                task |-> TaskMessage(stock_symbol, question, portfolio_data) ]
  /\ AnalysisStart

TeamNext == TaskStep \/ ToolCallStep \/ ToolResultStep \/ ResponseStep \/ ReturnStep

TeamSpec == TeamInit /\ [][TeamNext]_vars

\* ------------------------------------------------------------------------
\* The extraction on ReportAgent's message: the deliberation in which the
\* five analysts answer directly and ReportAgent writes a report of two
\* parts, a recommendation part and a confidence part
\* ------------------------------------------------------------------------

\* the recommendation part of a report
RecLines ==
  { "RECOMMENDATION: BUY\n",
    "**RECOMMENDATION:** DON'T BUY - WAIT\n",
    "DON'T BUY this stock now.\n",
    "RECOMMENDATION: DO NOT SELL\n",
    "Please don't sell yet.\n",
    "RECOMMENDATION: HOLD\nWe say do not buy more.\n",
    "Nothing stands out.\n",
    "ANSWER: NO\nSome would buy.\n",
    "We recommend buying.\n",
    "RECOMMENDATION: STRONG BUY\n",
    "Better to avoid it.\n",
    "I would hold, RECOMMENDATION: SELL\n",
    "FINAL_ANALYSIS_COMPLETE\n" }

\* the confidence part of a report
ConfLines ==
  { "CONFIDENCE LEVEL: 8/10\n",
    "**CONFIDENCE LEVEL:** 10/10\n",
    "Confidence: 85%\n",
    "Rated 6/10 overall.\n",
    "My confidence (7/10).\n",
    "My confidence (5%).\n",
    "My confidence (12/10).\n",
    "No number given.\n",
    "" }

\* what ReportAgent may write
ReportWritings == { <<rec, conf>> : rec \in RecLines, conf \in ConfLines }

\* what an analyst writes
AnalystText == <<"Analysis ready. MARKET_DATA_COMPLETE">>

\* an analyst responds without a tool call and the turn passes on
AnalystStep ==
  /\ pc = "loop" /\ team.turn \in 1..max_turns
  /\ ~team.calling
  /\ Speaker(team.turn) # "ReportAgent"
  /\ Consume([source |-> Speaker(team.turn), content |-> AnalystText])
  /\ team' = [team EXCEPT !.turn = @ + 1, !.rounds = 0]

\* ReportAgent responds without a tool call
ReportStep ==
  /\ pc = "loop" /\ team.turn \in 1..max_turns
  /\ ~team.calling
  /\ Speaker(team.turn) = "ReportAgent"
  /\ \E text \in ReportWritings :
       Consume([source |-> Speaker(team.turn), content |-> text])
  /\ team' = [team EXCEPT !.turn = @ + 1, !.rounds = 0]

ReportNext == TaskStep \/ AnalystStep \/ ReportStep \/ ReturnStep

ReportSpec == TeamInit /\ [][ReportNext]_vars

\* ------------------------------------------------------------------------
\* Properties of the deliberation
\* ------------------------------------------------------------------------

\* the texts a message of the stream may carry
MessageTexts ==
  { TaskMessage(symbol, question, portfolio_data).content :
      symbol \in StockSymbols, question \in Questions, portfolio_data \in PortfolioInputs }
  \cup ToolCallTexts \cup ToolResultTexts \cup AgentTexts \cup ReportTexts

\* those that contain the sentinel phrase
SentinelTexts == { text \in MessageTexts : Has("FINAL_ANALYSIS_COMPLETE", Chars(text)) }

HasSentinel(message) == message.content \in SentinelTexts

\* the message is the response of a participant: not the user's task and not
\* a tool call or tool result
IsResponse(message) ==
  message.source # "user" /\ message.content \notin (ToolCallTexts \cup ToolResultTexts)

\* the participants with a response among the first n consumed messages
SpokenUpTo(n) ==
  { all_messages[i].source : i \in { j \in 1..n : IsResponse(all_messages[j]) } }

Consumed == Len(all_messages)

LoopOver == pc \in {"stopped", "done"}

NoSentinelConsumed == \A i \in 1..Consumed : ~HasSentinel(all_messages[i])

\* C5: with six participants and no sentinel phrase in any message, the loop
\* stops at exactly the message at which the number of distinct participants
\* with a counted message first reaches 6, not earlier and not later, unless the
\* 30-message ceiling fires first.
C5_StopsExactlyAtQuota ==
  NoSentinelConsumed =>
    /\ pc = "loop" => Cardinality(SpokenUpTo(Consumed)) < 6
    /\ (LoopOver /\ Consumed < 30) =>
         /\ Cardinality(SpokenUpTo(Consumed)) = 6
         /\ Cardinality(SpokenUpTo(Consumed - 1)) = 5

\* the loop has stopped on the sixth speaker, without sentinel, below the ceiling
C5_Witness ==
  /\ pc = "stopped"
  /\ NoSentinelConsumed
  /\ Cardinality(SpokenUpTo(Consumed)) = 6
  /\ Consumed < 30

\* one of the three stop conditions holds at the n-th consumed message
StopConditionAt(n) ==
  \/ HasSentinel(all_messages[n])
  \/ Cardinality(SpokenUpTo(n)) >= 6
  \/ n >= 30

\* C6: the loop stops at the first message at which the sentinel is in that
\* message, the distinct-speaker count has reached 6, or 30 raw messages (tool
\* sub-messages included) have been consumed; after a message with the sentinel
\* nothing more is consumed, and never more than 30 messages are consumed.
C6_StopsAtFirstCondition ==
  /\ message_count = Consumed
  /\ message_count <= 30
  /\ \A n \in 1..(Consumed - 1) : ~HasSentinel(all_messages[n])
  /\ Consumed > 0 => Cardinality(SpokenUpTo(Consumed - 1)) < 6
  /\ (pc = "loop" /\ Consumed > 0) => ~StopConditionAt(Consumed)
  /\ LoopOver => StopConditionAt(Consumed)

\* the loop has stopped on a sentinel with speakers missing and messages to spare
C6_Witness ==
  /\ pc = "stopped"
  /\ HasSentinel(all_messages[Consumed])
  /\ Cardinality(SpokenUpTo(Consumed)) \in 1..5
  /\ Consumed < 30

\* the ceiling stopped the loop before ReportAgent has spoken
CeilingBeforeReport ==
  /\ message_count >= 30
  /\ ~HasSentinel(all_messages[Consumed])
  /\ "ReportAgent" \notin SpokenUpTo(Consumed)

\* C7: when the loop stops on the message ceiling before the final participant
\* has spoken, the function returns a result built from what was collected (the
\* outputs of the participants that spoke, a recommendation and a confidence):
\* the step after the stop is the return, nothing is raised.
C7_CeilingReturnsResult ==
  [][ (pc = "stopped" /\ CeilingBeforeReport) =>
        /\ pc' = "done"
        /\ DOMAIN result'.agent_outputs = SpokenUpTo(Consumed)
        /\ result'.agent_outputs = agent_outputs
        /\ result'.messages = all_messages
        /\ result'.recommendation = "HOLD"
        /\ result'.confidence = 50 ]_vars

\* a run has returned after the ceiling stopped it with speakers missing
C7_Witness ==
  /\ pc = "done"
  /\ CeilingBeforeReport
  /\ SpokenUpTo(Consumed) # {}
  /\ result.recommendation = "HOLD"

\* the sources of the responses among the consumed messages, in order
ResponseSources ==
  With(SelectSeq(all_messages, IsResponse), LAMBDA responses :
    [ i \in DOMAIN responses |-> responses[i].source ])

\* C8: the participants speak in the fixed order OrganiserAgent, RiskManager,
\* DataAnalyst, QuantitativeAnalyst, StrategyDeveloper, ReportAgent; one
\* participant is active at a time (every message between two responses comes
\* from the participant whose turn it is); each contributes exactly one counted
\* message; messages from 'user' and tool-call or tool-result messages are never
\* counted.
C8_FixedOrderOneMessageEach ==
  /\ Len(agent_responses) <= 6
  /\ agent_responses = SubSeq(<<"OrganiserAgent", "RiskManager", "DataAnalyst",
                                "QuantitativeAnalyst", "StrategyDeveloper", "ReportAgent">>,
                              1, Len(agent_responses))
  /\ agent_responses = ResponseSources
  /\ DOMAIN agent_outputs = Range(agent_responses)
  /\ \A i \in 1..Consumed :
       all_messages[i].source # "user" =>
         /\ i > 1
         /\ all_messages[i].source = Participants[Cardinality(SpokenUpTo(i - 1)) + 1]
  /\ (LoopOver /\ NoSentinelConsumed /\ Consumed < 30) => Len(agent_responses) = 6

\* all six have spoken, each once, and tool messages were consumed on the way
C8_Witness ==
  /\ pc = "stopped"
  /\ agent_responses = Participants
  /\ \E i \in 1..Consumed : all_messages[i].content \in ToolResultTexts
  /\ all_messages[1].source = "user"

\* the seven fixed recommendation values
FixedRecommendations == {"STRONG_BUY", "BUY", "HOLD", "WAIT", "AVOID", "SELL", "STRONG_SELL"}

\* C9: whatever the participants write, the recommendation returned is one of
\* STRONG_BUY, BUY, HOLD, WAIT, AVOID, SELL, STRONG_SELL.
C9_RecommendationIsFixedValue ==
  pc = "done" => result.recommendation \in FixedRecommendations

\* C10: whatever the participants write, the confidence returned is an integer
\* between 0 and 100 inclusive.
C10_ConfidenceInRange ==
  pc = "done" => result.confidence \in 0..100

\* ------------------------------------------------------------------------
\* Properties of the extraction
\* ------------------------------------------------------------------------

\* ReportAgent has written and the function has returned
ReportReturned == pc = "done" /\ "ReportAgent" \in DOMAIN agent_outputs

\* the characters ReportAgent wrote
ReportWritten == Chars(agent_outputs["ReportAgent"])

\* the text holds a negated buy phrase, letter case ignored
NegatedBuy(cs) ==
  HasAny({"DON'T BUY", "DONT BUY", "DO NOT BUY"}, Upper(cs))

\* the text holds a negated sell phrase, letter case ignored
NegatedSell(cs) ==
  HasAny({"DON'T SELL", "DONT SELL", "DO NOT SELL"}, Upper(cs))

\* C11: for every text of the final participant that contains a negated buy
\* phrase (DON'T BUY, DONT BUY, DO NOT BUY) the recommendation is AVOID or WAIT,
\* never BUY or STRONG BUY; a text with a negated sell phrase is never
\* classified as SELL.
C11_NegationNeverPositive ==
  ReportReturned =>
    /\ NegatedBuy(ReportWritten) => result.recommendation \in {"AVOID", "WAIT"}
    /\ NegatedSell(ReportWritten) => result.recommendation # "SELL"

\* the narrower statement the code does satisfy: a negated buy phrase on the
\* RECOMMENDATION: line itself gives AVOID
C11_NegationOnLabelLine ==
  ReportReturned =>
    With(rec_match(ReportWritten), LAMBDA found :
      (found.found /\ NegatedBuy(found.group)) => result.recommendation = "AVOID")

\* C12: every call that returns yields a recommendation and a confidence that
\* are both set: the recommendation is not empty and the confidence is a
\* number, also when the final participant never spoke, when its text matches
\* no pattern and when the run stopped at the message ceiling.
C12_AlwaysSet ==
  pc = "done" =>
    /\ result.recommendation # ""
    /\ result.confidence \in Int

\* a run has returned although the loop stopped before ReportAgent spoke and
\* nothing was extracted
C12_Witness ==
  /\ pc = "done"
  /\ "ReportAgent" \notin DOMAIN agent_outputs
  /\ message_count < MessageCeiling
  /\ IsNone(recommendation) /\ IsNone(confidence)
  /\ result.recommendation = "HOLD"
  /\ result.confidence = NoReportConfidence

\* the number X a confidence part states, and whether it is written X/10
\* (otherwise X%)
WrittenConfidence ==
  ( "CONFIDENCE LEVEL: 8/10\n" :> [x |-> 8, of_ten |-> TRUE] ) @@
  ( "**CONFIDENCE LEVEL:** 10/10\n" :> [x |-> 10, of_ten |-> TRUE] ) @@
  ( "Confidence: 85%\n" :> [x |-> 85, of_ten |-> FALSE] ) @@
  ( "Rated 6/10 overall.\n" :> [x |-> 6, of_ten |-> TRUE] ) @@
  ( "My confidence (7/10).\n" :> [x |-> 7, of_ten |-> TRUE] ) @@
  ( "My confidence (5%).\n" :> [x |-> 5, of_ten |-> FALSE] ) @@
  ( "My confidence (12/10).\n" :> [x |-> 12, of_ten |-> TRUE] )

\* C13: a confidence written as X/10 is returned as X times 10 and one written
\* as X% is returned as X, whichever pattern finds it: the labelled CONFIDENCE
\* LEVEL pattern, the percentage pattern, the bare X/10 pattern or the scan of
\* the final report after the loop.
C13_ConfidenceNormalised ==
  ReportReturned =>
    With(agent_outputs["ReportAgent"][2], LAMBDA line :
      line \in DOMAIN WrittenConfidence =>
        result.confidence = IF WrittenConfidence[line].of_ten
                            THEN WrittenConfidence[line].x * 10
                            ELSE WrittenConfidence[line].x)

\* first layer: what the RECOMMENDATION: label gives, None without a match
LabelLayer(cs) ==
  With(rec_match(cs), LAMBDA found :
    IF found.found THEN Some(RecommendationOfLine(Strip(found.group))) ELSE None)

\* second layer: what the scans over the whole text give (the ANSWER: pattern,
\* the keywords BUY, SELL, HOLD, then the phrases looked for in the cleaned
\* report), None when nothing is found
ScanLayer(cs) ==
  With(answer_match(cs), LAMBDA answer :
  With(Upper(CleanReport(cs)), LAMBDA report_upper :
    IF answer.found
      THEN Some(IF Upper(answer.group) = Spell["YES"] THEN "BUY" ELSE "WAIT")
    ELSE IF BuySearch(cs) THEN Some("BUY")
    ELSE IF WordSearch(cs, "SELL") THEN Some("SELL")
    ELSE IF WordSearch(cs, "HOLD") THEN Some("HOLD")
    ELSE IF HasAny({"STRONG BUY", "RECOMMEND BUYING"}, report_upper) THEN Some("BUY")
    ELSE IF HasAny({"AVOID", "DO NOT BUY"}, report_upper) THEN Some("AVOID")
    ELSE None))

\* no pattern finds a confidence in the text
NoConfidenceFound(cs) ==
  /\ ~conf_level_match(cs).found
  /\ ~conf_percent_match(cs).found
  /\ ~conf_out_of_ten_match(cs).found
  /\ ~conf_anywhere_match(CleanReport(cs)).found

\* C14: the layers are tried in a fixed order and a later one is used only when
\* every earlier one found nothing: the RECOMMENDATION: label first, then the
\* scans over the whole text, then the default; when all fail the result is
\* HOLD, with the default confidence when no confidence is found either (the
\* default for a report, or the one for no report when nothing but markers
\* was written).
C14_LayersInOrder ==
  ReportReturned =>
    With(LabelLayer(ReportWritten), LAMBDA label :
    With(ScanLayer(ReportWritten), LAMBDA scan :
      /\ ~IsNone(label) => result.recommendation = label.value
      /\ (IsNone(label) /\ ~IsNone(scan)) => result.recommendation = scan.value
      /\ (IsNone(label) /\ IsNone(scan)) => result.recommendation = "HOLD"
      /\ (IsNone(label) /\ IsNone(scan) /\ NoConfidenceFound(ReportWritten)) =>
           result.confidence = IF CleanReport(ReportWritten) # <<>>
                               THEN ReportConfidence ELSE NoReportConfidence))

\* a report in which no layer finds anything has been returned as HOLD with
\* the default confidence
C14_Witness ==
  /\ ReportReturned
  /\ agent_outputs["ReportAgent"] = <<"Nothing stands out.\n", "No number given.\n">>
  /\ IsNone(LabelLayer(ReportWritten)) /\ IsNone(ScanLayer(ReportWritten))
  /\ result.recommendation = "HOLD"
  /\ result.confidence = ReportConfidence

\* one of the completion markers occurs in the characters cs
HasMarker(cs) == \E n \in DOMAIN debug_markers : Has(debug_markers[n], cs)

\* C15: no text returned to the consumer (final_report, summary, agent_outputs)
\* contains a completion marker such as FINAL_ANALYSIS_COMPLETE.
C15_NoMarkerReturned ==
  pc = "done" =>
    /\ ~HasMarker(result.final_report)
    /\ ~HasMarker(result.summary)
    /\ \A a \in DOMAIN result.agent_outputs : ~HasMarker(Chars(result.agent_outputs[a]))

\* the part the clean-up does achieve for these reports: the final report and
\* its summary carry no marker
C15_ReportCleaned ==
  pc = "done" => ~HasMarker(result.final_report) /\ ~HasMarker(result.summary)

\* ------------------------------------------------------------------------
\* The validator on its own (src/src/nodes/validator_node.py): it is given a
\* state with a query, a response, the data of both sources and the
\* conversation history the API passes in
\* ------------------------------------------------------------------------

ValidatorQueries ==
  Queries \cup
  { <<"Is AAPL profitable?">>,
    <<"Which is the best of them?">>,
    <<"What about that stock?">>,
    <<"worst stock?">>,
    <<"top holding">>,
    <<"almost done">>,
    <<"first one">>,
    <<"what is the best one among all of the many large technology companies on offer today">>,
    <<"price of TSLA">>,
    <<"Compare ETF funds">> }

ValidatorAnswers ==
  Answers \cup { <<"This ETF is diversified.">>, <<"Consider NVDA and the ETF.">>, <<>>,
                 <<"AAPL is trading at $400.00 today.">> }

\* portfolio_data as the portfolio node leaves it, or absent
ValidatorPortfolios == { None, load_portfolio_data("CLT-001"), load_portfolio_data("CLT-999") }

\* market_data as the market node leaves it, or absent
ValidatorMarkets == { None, get_multiple_stock_prices({"AAPL", "NVDA"}, {"NVDA"}) }

\* conversation_history as routes.py passes it: empty, or one earlier exchange
Histories ==
  { <<>>,
    << [role |-> "user", content |-> <<"price of AAPL">>],
       [role |-> "assistant", content |-> <<"AAPL is trading at $150.00 today.">>] >> }

ValidatorInput(query, response, portfolio_data, market_data, history) ==
  Update(InitialState(query, "CLT-001"),
         [ response |-> response,
           portfolio_data |-> portfolio_data,
           market_data |-> market_data,
           conversation_history |-> history ])

ValidatorInit ==
  /\ state \in { ValidatorInput(q, r, p, m, h) :
                   q \in ValidatorQueries, r \in ValidatorAnswers,
                   p \in ValidatorPortfolios, m \in ValidatorMarkets, h \in Histories }
  /\ active = {"validator"}
  /\ trace = <<>>
  /\ TeamIdle
  /\ BatchIdle
  /\ DirectCall

ValidatorSpec == ValidatorInit /\ [][ValidatorStep]_vars

\* ------------------------------------------------------------------------
\* Properties of the validator
\* ------------------------------------------------------------------------

\* the words of cs: the maximal runs of word characters
WordRuns(cs) ==
  { SubSeq(cs, ij[1], ij[2]) : ij \in
      { ij \in (1..Len(cs)) \X (1..Len(cs)) :
          /\ ij[1] <= ij[2]
          /\ \A k \in ij[1]..ij[2] : IsWordChar(cs[k])
          /\ (ij[1] = 1 \/ ~IsWordChar(cs[ij[1] - 1]))
          /\ (ij[2] = Len(cs) \/ ~IsWordChar(cs[ij[2] + 1])) } }

\* a word of 2 to 5 capital letters
IdentifierShaped(w) == Len(w) \in 2..5 /\ \A k \in DOMAIN w : IsUpper(w[k])

\* the word is one of the strings of the set
NamedIn(w, strings) == \E s \in strings : Spell[s] = w

\* the symbols of the holdings of the portfolio data, if any
HeldSymbols(portfolio_data) ==
  IF IsNone(portfolio_data) \/ "holdings" \notin DOMAIN portfolio_data THEN {}
  ELSE { portfolio_data.holdings[i].symbol : i \in DOMAIN portfolio_data.holdings }

\* the keys of the market-data map, if any
QuotedSymbols(market_data) == IF IsNone(market_data) THEN {} ELSE DOMAIN market_data

\* the words of cs that name something unknown: identifier-shaped, not on the
\* denylist, and in neither the holdings nor the market-data map
UnknownIdentifiers(cs, portfolio_data, market_data) ==
  { w \in WordRuns(cs) :
      /\ IdentifierShaped(w)
      /\ ~NamedIn(w, common_words)
      /\ ~NamedIn(w, HeldSymbols(portfolio_data))
      /\ ~NamedIn(w, QuotedSymbols(market_data)) }

\* the validator has run on the state
Validated == trace = <<"validator">>

C16_DenylistWitness ==
  /\ Validated
  /\ state.response = <<"This ETF is diversified.">>

\* the query of the state as detect_ambiguity reads it, and what it answers
QueryLower == Strip(Lower(Chars(state.query)))

History == Get(state, "conversation_history", <<>>)

Ambiguity == detect_ambiguity(state.query, History)

\* relative term n occurs in the query and none of its metric words does
UnqualifiedTerm(n) ==
  /\ Has(relative_terms[n].term, QueryLower)
  /\ ~HasAny(relative_terms[n].context_words, QueryLower)

\* one of the vague pronouns occurs in the query, as the code looks for it
ContainsPronoun == \E i \in DOMAIN vague_pronouns : Has(vague_pronouns[i], QueryLower)

\* the validator has asked the question of relative term n
AskedAbout(n) ==
  /\ Validated
  /\ Get(state, "needs_clarification", FALSE)
  /\ Get(state, "clarification_message", <<>>) = <<relative_terms[n].clarification>>

\* C17 as stated: with empty history, a query shorter than 80 characters that
\* contains a relative term (best, worst, top, most, first) and none of that
\* term's metric words is flagged ambiguous with that term's clarification, as
\* "what's the best one" is; "best performer by total return this month" is
\* returned as not ambiguous.
C17_RelativeTermAsked ==
  History = <<>> =>
    /\ \A n \in DOMAIN relative_terms :
         (Len(Chars(state.query)) < 80 /\ UnqualifiedTerm(n)) =>
           /\ Ambiguity.is_ambiguous
           /\ Ambiguity.message = <<relative_terms[n].clarification>>
    /\ state.query = <<"best performer by total return this month">> => ~Ambiguity.is_ambiguous

\* C17 amended: such a query is always flagged ambiguous, and the question asked
\* is that term's clarification when the query contains no vague pronoun and no
\* relative term earlier in the list is unqualified too; the query that states
\* a metric is not ambiguous.
C17_RelativeTermFlagged ==
  History = <<>> =>
    /\ \A n \in DOMAIN relative_terms :
         (Len(Chars(state.query)) < 80 /\ UnqualifiedTerm(n)) =>
           /\ Ambiguity.is_ambiguous
           /\ (~ContainsPronoun /\ \A m \in 1..(n - 1) : ~UnqualifiedTerm(m)) =>
                Ambiguity.message = <<relative_terms[n].clarification>>
           /\ Validated => Get(state, "needs_clarification", FALSE)
    /\ state.query = <<"best performer by total return this month">> => ~Ambiguity.is_ambiguous

\* the validator has asked "Best by what metric?" for "what's the best one"
C17_Witness ==
  /\ state.query = <<"what's the best one">>
  /\ History = <<>>
  /\ AskedAbout(1)

\* the piece occurs in cs as a word or phrase: not inside a longer word
OccursAsWord(piece, cs) ==
  \E i \in 1..Len(cs) :
    /\ i + Len(Spell[piece]) - 1 <= Len(cs)
    /\ SubSeq(cs, i, i + Len(Spell[piece]) - 1) = Spell[piece]
    /\ (i = 1 \/ ~IsWordChar(cs[i - 1]))
    /\ (i + Len(Spell[piece]) - 1 = Len(cs) \/ ~IsWordChar(cs[i + Len(Spell[piece])]))

\* the query uses one of the vague pronouns as a word or phrase
UsesPronoun == \E i \in DOMAIN vague_pronouns : OccursAsWord(vague_pronouns[i], QueryLower)

\* the query is flagged on pronoun grounds: the question asked is the pronoun's
FlaggedForPronoun ==
  /\ Ambiguity.is_ambiguous
  /\ Len(Ambiguity.message) = 3
  /\ Ambiguity.message[1] = "Which specific stock are you referring to when you say '"

\* C18: detect_ambiguity flags a query on pronoun grounds exactly when the query
\* uses one of the vague pronouns (it, that stock, that one, this one, the
\* stock, them, those) as a word or phrase and the conversation history is
\* empty; so with a non-empty history a pronoun never triggers a clarification,
\* and a query that uses no such pronoun is never flagged on pronoun grounds.
C18_PronounGrounds == FlaggedForPronoun <=> (UsesPronoun /\ History = <<>>)

\* the parts of C18 that do hold: a history silences the pronoun rule, and a
\* pronoun used as a word with no history is always asked about
C18_HistorySilences ==
  /\ History # <<>> => ~FlaggedForPronoun
  /\ (UsesPronoun /\ History = <<>>) => FlaggedForPronoun

\* what check_data_sufficiency may answer for the state
Sufficiency == check_data_sufficiency(state.query, state.portfolio_data, state.market_data)

\* the query is rejected for an identifier without data: the message names it
RejectedForIdentifier ==
  \E s \in Sufficiency :
    /\ ~s.is_sufficient
    /\ Len(s.message) = 3
    /\ s.message[1] \in {"Your portfolio doesn't contain ", "I don't have market data for "}

\* C19: the data-sufficiency check rejects a query for an unknown identifier
\* exactly when the query has an identifier-shaped word (2 to 5 capital
\* letters) that is not on the denylist and is in neither the portfolio
\* holdings nor the market-data map; denylisted words, and words of the query
\* that are not identifier-shaped, never cause a rejection.
C19_RejectsUnknownIdentifiers ==
  RejectedForIdentifier <=>
    UnknownIdentifiers(Chars(state.query), state.portfolio_data, state.market_data) # {}

\* the direction of C19 that does hold: an unknown identifier is always rejected
C19_UnknownRejected ==
  UnknownIdentifiers(Chars(state.query), state.portfolio_data, state.market_data) # {}
    => RejectedForIdentifier

\* C20: whenever the validator finds the query ambiguous, the state it returns
\* has needs_clarification = true, a non-empty clarification_message and
\* validated = false, with response, portfolio_data and market_data exactly as
\* they were on entry; on every other path through the validator
\* needs_clarification = false and validated = true.
C20_ClarificationState ==
  [][ ValidatorStep =>
        IF Ambiguity.is_ambiguous
        THEN /\ Get(state', "needs_clarification", FALSE) = TRUE
             /\ Chars(Get(state', "clarification_message", <<>>)) # <<>>
             /\ state'.validated = FALSE
             /\ state'.response = state.response
             /\ state'.portfolio_data = state.portfolio_data
             /\ state'.market_data = state.market_data
        ELSE /\ "needs_clarification" \in DOMAIN state'
             /\ state'.needs_clarification = FALSE
             /\ state'.validated = TRUE ]_wfvars

\* the validator has returned a clarification request for an ambiguous query,
\* the answer and the data of both sources still in the state
C20_Witness ==
  /\ Validated
  /\ Ambiguity.is_ambiguous
  /\ Get(state, "needs_clarification", FALSE)
  /\ ~state.validated
  /\ state.response = <<"TSLA looks strong.">>
  /\ Truthy(state.portfolio_data) /\ Truthy(state.market_data)

\* the validator has passed a clear query
C20_PassedWitness ==
  /\ Validated
  /\ ~Ambiguity.is_ambiguous
  /\ state.validated /\ ~Get(state, "needs_clarification", TRUE)

\* ------------------------------------------------------------------------
\* Properties of the returned state and of the nodes' writes
\* ------------------------------------------------------------------------

\* the text the run carries for the user
ResponseText == Chars(Get(state, "response", <<>>))

ClarificationText == Chars(Get(state, "clarification_message", <<>>))

\* C21: every run that returns carries non-empty text for the user, a non-empty
\* response or a non-empty clarification message, for every flag combination
\* and every validator path, the path where no specialist ran and the response
\* is still empty when the validator starts included.
C21_TextReturned == Ended => (ResponseText # <<>> \/ ClarificationText # <<>>)

\* a run in which no specialist ran has ended with the validator's note as its
\* only text
C21_Witness ==
  /\ Ended
  /\ trace = <<"planner", "validator">>
  /\ ClarificationText = <<>>
  /\ StartsWith(ResponseText, Chars(<<"\n\n---\n", "Note: This response may have limitations. ">>))

\* ------------------------------------------------------------------------
\* The batch lookup of the market node (src/src/tools/market_tools.py,
\* get_multiple_stock_prices; src/src/nodes/market_node.py)
\* ------------------------------------------------------------------------

\* the ticker lists the market node asks quotes for: four tickers of the
\* popular set and one more, and a client's holdings with cash and a ticker
\* held twice
BatchTickers ==
  { <<"AAPL", "MSFT", "NVDA", "GOOGL", "IBM">>,
    <<"AAPL", "MSFT", "CASH", "IBM", "AAPL", "NFLX">> }

\* the most fetches of one batch that fail
MaxFailures == 1

\* executor.submit for every ticker: the futures wait in the pool's queue
BatchInit ==
  /\ WorkflowIdle
  /\ TeamIdle
  /\ DirectCall
  /\ \E tickers \in BatchTickers :
       \E failing \in { F \in SUBSET DOMAIN tickers : Cardinality(F) <= MaxFailures } :
         batch = [ phase |-> "fetching", tickers |-> tickers, failing |-> failing,
                   queued |-> DOMAIN tickers, running |-> {}, done |-> {}, collected |-> {},
                   results |-> <<>>, market_data |-> <<>> ]

\* a worker thread is free to take a future
WorkerFree == Cardinality(batch.running) < MaxWorkers

\* a worker takes the oldest future of the queue
StartFetch ==
  /\ batch.phase = "fetching"
  /\ batch.queued # {}
  /\ WorkerFree
  /\ batch' = [batch EXCEPT !.queued = @ \ {Least(batch.queued)},
                            !.running = @ \cup {Least(batch.queued)}]
  /\ UNCHANGED <<wfvars, teamvars, requestvars>>

\* a running fetch returns: its future is complete
FinishFetch ==
  /\ batch.phase = "fetching"
  /\ \E i \in batch.running :
       batch' = [batch EXCEPT !.running = @ \ {i}, !.done = @ \cup {i}]
  /\ UNCHANGED <<wfvars, teamvars, requestvars>>

\* as_completed yields a complete future: results[ticker] = price_data
CollectResult ==
  /\ batch.phase = "fetching"
  /\ \E i \in batch.done :
       batch' = [batch EXCEPT
                   !.done = @ \ {i},
                   !.collected = @ \cup {i},
                   !.results = Update(@, [ t \in {batch.tickers[i]} |->
                                             fetch_ticker_price(t, i \in batch.failing) ])]
  /\ UNCHANGED <<wfvars, teamvars, requestvars>>

\* a batch that returns with the first result
AllCollected_first_result == batch.collected # {}

\* the loop over as_completed has seen every future and the pool is shut down
AllCollected == batch.collected = DOMAIN batch.tickers

\* return results: the market node has its market_data
BatchReturn ==
  /\ batch.phase = "fetching"
  /\ AllCollected
  /\ batch' = [batch EXCEPT !.phase = "returned", !.market_data = batch.results]
  /\ UNCHANGED <<wfvars, teamvars, requestvars>>

\* llm.invoke(analysis_prompt), the prompt holding the market data
InvokeAnalysis ==
  /\ batch.phase = "returned"
  /\ batch' = [batch EXCEPT !.phase = "invoked"]
  /\ UNCHANGED <<wfvars, teamvars, requestvars>>

BatchNext == StartFetch \/ FinishFetch \/ CollectResult \/ BatchReturn \/ InvokeAnalysis

BatchSpec == BatchInit /\ [][BatchNext]_vars

\* ------------------------------------------------------------------------
\* Properties of the batch lookup
\* ------------------------------------------------------------------------

\* the batch has returned its map to the market node
BatchReturned == batch.phase \in {"returned", "invoked"}

\* the fetches of ticker t, by their position in the list
FetchesOf(t) == { i \in DOMAIN batch.tickers : batch.tickers[i] = t }

\* the quote reader failed in fetch i (cash is never fetched)
FetchFailed(i) == i \in batch.failing /\ Upper(Spell[batch.tickers[i]]) # Spell["CASH"]

\* the entry is an explicit error marker: an 'error' field and no price
ErrorEntry(entry) == "error" \in DOMAIN entry /\ entry.current_price = NoPrice

\* the entry is usable price data
PriceEntry(entry) == "error" \notin DOMAIN entry /\ entry.current_price > 0

\* C22: a batch lookup in which some tickers fail still returns an entry for
\* every requested ticker: usable price data for each ticker that succeeded and
\* an explicit error marker (an 'error' field and no price) for each one that
\* failed; one failure never aborts the batch or removes another ticker's data.
C22_ErrorMarkerPerFailure ==
  BatchReturned =>
    /\ DOMAIN batch.market_data = Range(batch.tickers)
    /\ \A t \in Range(batch.tickers) :
         \E i \in FetchesOf(t) :
           IF FetchFailed(i) THEN ErrorEntry(batch.market_data[t])
           ELSE PriceEntry(batch.market_data[t])

\* what does hold of the batch: every requested ticker has an entry, a ticker
\* whose fetches all succeeded has usable price data, and a ticker without a
\* demo price whose fetch failed has the error marker
C22_BatchNeverAborted ==
  BatchReturned =>
    /\ DOMAIN batch.market_data = Range(batch.tickers)
    /\ \A t \in Range(batch.tickers) :
         /\ (\A i \in FetchesOf(t) : ~FetchFailed(i)) => PriceEntry(batch.market_data[t])
         /\ ((\A i \in FetchesOf(t) : FetchFailed(i)) /\ ~HasDemoPrice(t)) =>
              ErrorEntry(batch.market_data[t])

\* the batch of five has returned with IBM's fetch failed: four prices and one
\* error marker
C22_OneFailureOfFive ==
  /\ BatchReturned
  /\ Len(batch.tickers) = 5
  /\ batch.failing = {5}
  /\ ErrorEntry(batch.market_data["IBM"])
  /\ \A t \in {"AAPL", "MSFT", "NVDA", "GOOGL"} : PriceEntry(batch.market_data[t])

\* C23: in the market node all parallel quote fetches have completed before the
\* node's inference call is issued, at most 5 fetches run at the same time, and
\* the resulting map has exactly one entry per distinct requested ticker
\* whatever order the fetches complete in.
C23_JoinBeforeInference ==
  /\ Cardinality(batch.running) <= 5
  /\ batch.phase = "invoked" =>
       /\ batch.queued = {} /\ batch.running = {} /\ batch.done = {}
       /\ batch.collected = DOMAIN batch.tickers
  /\ BatchReturned => DOMAIN batch.market_data = Range(batch.tickers)

\* the inference call has been issued for the list of six with one ticker
\* twice: five entries
C23_Witness ==
  /\ batch.phase = "invoked"
  /\ Len(batch.tickers) = 6
  /\ Cardinality(DOMAIN batch.market_data) = 5

\* five fetches are running and the sixth waits for a free worker
C23_PoolFull ==
  /\ Cardinality(batch.running) = 5
  /\ batch.queued = {6}

\* ------------------------------------------------------------------------
\* Exceptions inside the workflow
\* ------------------------------------------------------------------------

\* get_llm raises this one when the environment holds no key
MissingKey ==
  [ type |-> "ValueError", message |-> "OPENAI_API_KEY not found in environment variables" ]

\* llm.invoke raises this one when the model cannot be reached
ConnectionFailed == [ type |-> "APIConnectionError", message |-> "Connection error." ]

\* the ways the inference call of a node fails
InferenceFailures == { MissingKey, ConnectionFailed }

\* a holding that lacks a field the validator's tools read
MissingField == [ type |-> "KeyError", message |-> "'security_name'" ]

Exceptions == InferenceFailures \cup { MissingField }

\* the nodes that call the language model
InferenceNodes == { "planner", "portfolio_agent", "market_agent" }

\* what the code of node n can raise
Raisable(n) == IF n \in InferenceNodes THEN InferenceFailures ELSE { MissingField }

\* node n is about to raise exception
Thrown(n, exception) == [ node |-> n, exception |-> exception ]

\* a scheduled node raises instead of returning: no statement of the nodes catches
\* it, so the node returns no state and the graph run is unwound
NodeRaises ==
  \E n \in Nodes :
    /\ Schedulable(n)
    /\ request.thrown = None
    /\ \E exception \in Raisable(n) :
         request' = [ request EXCEPT !.thrown = Some(Thrown(n, exception)) ]
    /\ active' = {}
    /\ UNCHANGED <<state, trace, teamvars, batchvars, backendvars, cleanvars>>

\* a run_workflow that answers with a failure state instead of raising
run_workflow_catching(exception) == None

\* what leaves run_workflow when app.invoke raised exception: the function has no
\* handler, the exception passes through
run_workflow(exception) == Some(exception)

\* the exception of the graph run leaves run_workflow
WorkflowRaises ==
  /\ request.thrown # None
  /\ request.phase = "idle"
  /\ request' = [ request EXCEPT !.raised = run_workflow(request.thrown.value.exception),
                                 !.phase = "raised" ]
  /\ UNCHANGED <<wfvars, teamvars, batchvars, backendvars, cleanvars>>

FailNext == WorkflowNext \/ NodeRaises \/ WorkflowRaises

FailSpec == WorkflowInit /\ [][FailNext]_vars

\* run_workflow has finished by raising
Raised == request.phase = "raised"

\* C24: an exception raised inside any node leaves run_workflow as that same
\* exception: the workflow neither catches it nor converts it into a response.
C24_SameExceptionLeaves ==
  Raised => /\ request.raised = Some(request.thrown.value.exception)
            /\ ~Ended

\* a run in which node n raised and run_workflow has finished
RaisedBy(n) == Raised /\ request.thrown.value.node = n

C24_Witness == RaisedBy("validator") /\ trace # <<>>

C24_PlannerWitness == RaisedBy("planner")

C24_SpecialistWitness == RaisedBy("market_agent")

\* the inference call of a node has failed in this run
InferenceFailed ==
  /\ request.thrown # None
  /\ request.thrown.value.node \in InferenceNodes
  /\ request.thrown.value.exception \in InferenceFailures

\* C25: when the inference call of a node fails the run is not ended by the
\* exception: the node answers with a degraded response and the run goes on to
\* the validator.
C25_InferenceFailureSurvived == InferenceFailed => ~Raised /\ active # {}

\* an inference failure that has ended the run without the validator
C25_RunLost == InferenceFailed /\ Raised /\ NodeRuns("validator") = 0

\* ------------------------------------------------------------------------
\* The HTTP services around the workflow
\* ------------------------------------------------------------------------

\* the two FastAPI applications of the repository
Backends == { "backend", "langgraph_backend" }

\* the parameters run_workflow declares
run_workflow_parameters == { "query", "client_id" }

\* the keywords both services pass to run_workflow
CallKeywords == { "query", "client_id", "conversation_history" }

\* what Python raises for a keyword the function does not declare
UnexpectedKeyword ==
  [ type |-> "TypeError",
    message |-> "run_workflow() got an unexpected keyword argument 'conversation_history'" ]

\* binding the keywords of a call of run_workflow: None when they bind
call_run_workflow(keywords) ==
  IF keywords \subseteq run_workflow_parameters THEN None ELSE Some(UnexpectedKeyword)

NoAgentActivity ==
  [ planner_used |-> FALSE, portfolio_used |-> FALSE, market_used |-> FALSE,
    collaboration_used |-> FALSE, validator_used |-> FALSE ]

\* the except branch of WorkflowService.execute_query (the metadata, a duration
\* and a timestamp, are left out)
execute_query_failure(exception) ==
  [ success |-> FALSE,
    response |-> <<"An error occurred while processing your query: ", exception.message>>,
    needs_clarification |-> FALSE,
    clarification_message |-> None,
    agent_activity |-> NoAgentActivity ]

\* backend/api/routes.py: an envelope without success becomes an HTTPException
\* whose detail is the envelope's text
query_portfolio_failure(envelope) == [ status_code |-> 500, detail |-> envelope.response ]

\* backends/langgraph_backend: the route converts every exception itself
langgraph_query_failure(exception) ==
  [ status_code |-> 500, detail |-> <<"Error processing query: ", exception.message>> ]

\* what the caller receives from a backend when run_workflow raises exception
FailureAnswer(backend, exception) ==
  IF backend = "backend"
  THEN query_portfolio_failure(execute_query_failure(exception))
  ELSE langgraph_query_failure(exception)

\* a request has passed the request model: the client id has the form CLT-ddd
ServiceInit ==
  /\ WorkflowIdle
  /\ TeamIdle
  /\ BatchIdle
  /\ BackendIdle
  /\ NotCleaning
  /\ \E backend \in Backends, query \in ValidatorQueries, client_id \in ClientIds,
        history \in Histories :
       request = [ NoRequest EXCEPT !.phase = "received", !.backend = backend,
                                    !.query = query, !.client_id = client_id,
                                    !.conversation_history = history ]

\* WorkflowService.execute_query: the call of run_workflow raises, the except
\* branch answers with the failure envelope (the keywords never bind, so the
\* branch that formats a result is not reached)
ExecuteQuery ==
  /\ request.phase = "received"
  /\ request.backend = "backend"
  /\ \E outcome \in { call_run_workflow(CallKeywords) } :
       /\ outcome # None
       /\ request' = [ request EXCEPT !.phase = "executed",
                                      !.raised = outcome,
                                      !.envelope = Some(execute_query_failure(outcome.value)) ]
  /\ UNCHANGED <<wfvars, teamvars, batchvars, backendvars, cleanvars>>

\* query_portfolio of backend/api/routes.py after execute_query has returned
RouteAnswers ==
  /\ request.phase = "executed"
  /\ ~request.envelope.value.success
  /\ request' = [ request EXCEPT !.phase = "answered",
                                 !.http = Some(query_portfolio_failure(request.envelope.value)) ]
  /\ UNCHANGED <<wfvars, teamvars, batchvars, backendvars, cleanvars>>

\* query_portfolio of backends/langgraph_backend
LanggraphQuery ==
  /\ request.phase = "received"
  /\ request.backend = "langgraph_backend"
  /\ \E outcome \in { call_run_workflow(CallKeywords) } :
       /\ outcome # None
       /\ request' = [ request EXCEPT !.phase = "answered",
                                      !.raised = outcome,
                                      !.http = Some(langgraph_query_failure(outcome.value)) ]
  /\ UNCHANGED <<wfvars, teamvars, batchvars, backendvars, cleanvars>>

ServiceNext == ExecuteQuery \/ RouteAnswers \/ LanggraphQuery

ServiceSpec == ServiceInit /\ [][ServiceNext]_vars

\* the service has answered a request whose workflow call raised
FailureAnswered == request.phase = "answered" /\ request.raised # None

\* C26: the failure envelope returned to the caller is generic: whatever the
\* exception that reached the top level, and whatever its message, the caller
\* receives the same envelope.
C26_GenericEnvelope ==
  FailureAnswered =>
    \A exception \in Exceptions :
      FailureAnswer(request.backend, exception) = request.http.value

\* the envelope of a failure carries the message of the exception
C26_MessageLeaked ==
  /\ FailureAnswered
  /\ request.backend = "backend"
  /\ request.http.value.detail =
       <<"An error occurred while processing your query: ", request.raised.value.message>>

\* ------------------------------------------------------------------------
\* Ownership of the state's fields
\* ------------------------------------------------------------------------

\* the node that owns each field of WorkflowState ("none": set by run_workflow only)
Owner ==
  [ query |-> "none", client_id |-> "none",
    plan |-> "planner", needs_portfolio |-> "planner", needs_market |-> "planner",
    wants_recommendations |-> "planner",
    portfolio_data |-> "portfolio_agent",
    market_data |-> "market_agent",
    validated |-> "validator", needs_clarification |-> "validator",
    clarification_message |-> "validator" ]

\* field f of state s: None when the state has no such key
Field(s, f) == IF f \in DOMAIN s THEN Some(s[f]) ELSE None

\* the fields whose value differs between s and t
Written(s, t) == { f \in DOMAIN Owner : Field(s, f) # Field(t, f) }

\* C27: each field of the state is written only by the node that owns it; every
\* other node leaves it unchanged, and no node writes query or client_id.
C27_OwnedFields ==
  [][ \A n \in Nodes :
        trace' = Append(trace, n) => \A f \in Written(state, state') : Owner[f] = n ]_wfvars

\* a run in which all four nodes ran and each wrote fields of its own
C27_Witness ==
  /\ Ended
  /\ \A n \in Nodes : NodeRuns(n) = 1
  /\ state.plan # <<>>
  /\ state.needs_portfolio /\ state.needs_market
  /\ state.portfolio_data # None
  /\ state.market_data # None
  /\ state.validated

\* ------------------------------------------------------------------------
\* The path without specialist
\* ------------------------------------------------------------------------

\* the planner has run and set neither flag
NeitherFlag ==
  /\ trace # <<>>
  /\ ~state.needs_portfolio
  /\ ~state.needs_market

\* C28: when the planner sets neither flag the validator is the next node, and
\* the answer it receives to validate and return is the planner's own text.
C28_PlannerTextValidated ==
  (NeitherFlag /\ trace = <<"planner">>) =>
    /\ active = {"validator"}
    /\ ResponseText # <<>>
    /\ ResponseText = Chars(state.plan)

\* with neither flag set the validator follows the planner at once
C28_ValidatorDirect ==
  NeitherFlag => /\ trace \in { <<"planner">>, <<"planner", "validator">> }
                 /\ trace = <<"planner">> => active = {"validator"}

\* the run without specialist has returned and the planner's text is no part of
\* what it returned
C28_PlanNotReturned ==
  /\ NeitherFlag
  /\ Ended
  /\ state.plan # <<>>
  /\ ~Contains(Chars(state.plan), ResponseText)
  /\ ~Contains(Chars(state.plan), ClarificationText)

\* ------------------------------------------------------------------------
\* The text the extractor reads
\* ------------------------------------------------------------------------

RECURSIVE TranscriptOf(_)

\* the responses of the participants among messages, one per line
TranscriptOf(messages) ==
  IF messages = <<>> THEN <<>>
  ELSE With(Head(messages), LAMBDA message :
         (IF IsResponse(message) THEN Chars(message.content) \o Spell["\n"] ELSE <<>>)
         \o TranscriptOf(Tail(messages)))

\* the analysis has returned and ReportAgent, the final participant, wrote nothing
NoFinalText == pc = "done" /\ final_report = <<>> /\ "ReportAgent" \notin DOMAIN agent_outputs

\* C29: when the final participant produced no text, the recommendation and the
\* confidence are extracted from the transcript of the other participants'
\* messages before any default is applied.
C29_TranscriptFallback ==
  NoFinalText =>
    With(TranscriptOf(all_messages), LAMBDA transcript :
    With(ExtractRecommendation(transcript, None), LAMBDA found :
    With(ExtractConfidence(transcript, None), LAMBDA level :
      /\ ~IsNone(found) => result.recommendation = found.value
      /\ ~IsNone(level) => result.confidence = level.value)))

\* the extractor reads the text of the final participant when there is one
C29_FinalTextRead ==
  (pc = "done" /\ "ReportAgent" \in DOMAIN agent_outputs) =>
    /\ final_report = agent_outputs["ReportAgent"]
    /\ With(ExtractRecommendation(ReportWritten, None), LAMBDA found :
         ~IsNone(found) /\ found.value # "" => result.recommendation = found.value)

\* a participant recommended BUY at 8/10, the final participant wrote nothing,
\* and the defaults were returned
C29_DefaultsDespiteTranscript ==
  /\ NoFinalText
  /\ Has("RECOMMENDATION: BUY", TranscriptOf(all_messages))
  /\ result.recommendation = "HOLD"
  /\ result.confidence = 50

\* ------------------------------------------------------------------------
\* Prices in the answer
\* ------------------------------------------------------------------------

\* the answer in state s states, near a ticker with a quote, a price more than
\* 50% away from the quote's current price
StatesWrongPrice(s) ==
  PriceIssues(Chars(Get(s, "response", <<>>)),
              Get(s, "portfolio_data", <<>>), Get(s, "market_data", <<>>)) # {}

\* C30: when the answer states, next to a ticker that has market data, a price
\* that differs from the quote's current price by more than 50%, the validator
\* flags it: what it returns differs from an answer passed as it is.
C30_PriceMismatchFlagged ==
  [][ (trace = <<>> /\ trace' = <<"validator">> /\ StatesWrongPrice(state)) =>
        \/ Get(state', "response", <<>>) # Get(state, "response", <<>>)
        \/ ~Get(state', "validated", FALSE)
        \/ Get(state', "needs_clarification", FALSE) ]_wfvars

\* the validator has passed an answer that puts AAPL, quoted at 150.00, at
\* 400.00, as valid and without a word about the price
C30_MismatchUnreported ==
  /\ Validated
  /\ StatesWrongPrice(state)
  /\ state.response = <<"AAPL is trading at $400.00 today.">>
  /\ state.validated
  /\ ~state.needs_clarification

\* ------------------------------------------------------------------------
\* Confidence scoring
\* ------------------------------------------------------------------------

\* the number of the listed vague phrases that occur in the answer cs
VagueCount(cs) ==
  Cardinality({ n \in DOMAIN vague_phrases : Contains(Lower(Spell[vague_phrases[n]]), Lower(cs)) })

\* the number of the listed word pairs of which both words occur in cs
ContradictionCount(cs) ==
  Cardinality({ n \in DOMAIN contradiction_pairs :
                  /\ Has(contradiction_pairs[n][1], Lower(cs))
                  /\ Has(contradiction_pairs[n][2], Lower(cs)) })

\* a portfolio query with holdings loaded whose answer names none of them
NoHoldingNamed(s) ==
  /\ Has("portfolio", Lower(Chars(s.query)))
  /\ HeldSymbols(s.portfolio_data) # {}
  /\ \A i \in DOMAIN s.portfolio_data.holdings :
       /\ ~Has(s.portfolio_data.holdings[i].symbol, Chars(s.response))
       /\ ~Has(s.portfolio_data.holdings[i].security_name, Chars(s.response))

\* a price query with market data loaded whose answer has no digit
NoDigit(s) ==
  /\ HasAny({"price", "trading", "market", "value"}, Lower(Chars(s.query)))
  /\ Truthy(s.market_data)
  /\ \A i \in DOMAIN Chars(s.response) : ~IsDigit(Chars(s.response)[i])

\* full confidence less the penalties, in tenths, before clamping
Score(s) ==
  10 - 2 * VagueCount(Chars(s.response)) - (IF NoHoldingNamed(s) THEN 3 ELSE 0)
     - (IF NoDigit(s) THEN 2 ELSE 0) - ContradictionCount(Chars(s.response))

\* the answer is shorter than 10 characters
TooShort(s) == Len(Strip(Chars(s.response))) < 10

\* what validate_response returns for the answer of state s
Validation(s) ==
  validate_response(s.response, s.query,
                    [portfolio_data |-> s.portfolio_data, market_data |-> s.market_data])

\* the validator returned t for s from its confidence stage: the answer as it
\* was or with the caveat footer
FooterAppended(s, t) ==
  /\ t.response # s.response
  /\ StartsWith(Chars(t.response),
                Chars(s.response \o <<"\n\n---\n", "Note: This response may have limitations. ">>))

ScoringDecided(s, t) ==
  /\ t.validated
  /\ ~Get(t, "needs_clarification", FALSE)
  /\ t.response = s.response \/ FooterAppended(s, t)

\* queries and answers that draw each penalty, alone and together
ScoringQueries ==
  { <<"what is the market value of my portfolio">>,
    <<"how is my portfolio doing">>,
    <<"price of AAPL">>,
    <<"hello">> }

ScoringAnswers ==
  { <<"This ETF is diversified.">>,
    <<"You own AAPL, MSFT and GOOGL.">>,
    <<"AAPL is trading at $150.00 today.">>,
    <<"I don't have access to that data.">>,
    <<"I cannot see it and I don't have information, so I am unable to provide the gain or loss.">>,
    <<"The gain outweighs the loss.">>,
    <<"OK">>,
    <<>> }

ScoringInit ==
  /\ state \in { ValidatorInput(q, r, p, m, h) :
                   q \in ScoringQueries, r \in ScoringAnswers,
                   p \in ValidatorPortfolios, m \in ValidatorMarkets, h \in Histories }
  /\ active = {"validator"}
  /\ trace = <<>>
  /\ TeamIdle
  /\ BatchIdle
  /\ DirectCall

ScoringSpec == ScoringInit /\ [][ValidatorStep]_vars

\* C31: the confidence is 1.0 less 0.2 per vague phrase, 0.3 for a portfolio
\* answer naming no holding, 0.2 for a price answer without digit and 0.1 per
\* contradictory pair, clamped to [0,1]; the response is invalid when that score
\* is below 0.5 or the answer is shorter than 10 characters; the caveat footer is
\* appended exactly when the response is invalid or the score is below 0.7.
C31_ScoreDecides ==
  [][ (trace = <<>> /\ trace' = <<"validator">>) =>
        /\ Validation(state).is_valid = ~(TooShort(state) \/ Score(state) < 5)
        /\ ScoringDecided(state, state') =>
             (FooterAppended(state, state') <=>
                (~Validation(state).is_valid \/ Score(state) < 7)) ]_wfvars

\* the same with the score as the float the code computes
C31_FloatScoreDecides ==
  [][ (trace = <<>> /\ trace' = <<"validator">>) =>
        /\ ~TooShort(state) =>
             /\ Validation(state).confidence.tenths
                  = (IF Score(state) < 0 THEN 0 ELSE Score(state))
             /\ Validation(state).is_valid
                  = ~(Score(state) < 5 \/ (Score(state) = 5 /\ Validation(state).confidence.low))
        /\ TooShort(state) =>
             ~Validation(state).is_valid /\ Validation(state).confidence.tenths = 0
        /\ ScoringDecided(state, state') =>
             (FooterAppended(state, state') <=>
                (~Validation(state).is_valid \/ Score(state) < 7)) ]_wfvars

\* an answer with the penalties 0.3 and 0.2 only, a score of 0.5, is invalid
C31_HalfIsInvalid ==
  /\ trace = <<>>
  /\ ~TooShort(state)
  /\ Score(state) = 5
  /\ ~Validation(state).is_valid

\* ------------------------------------------------------------------------
\* The planner's flags
\* ------------------------------------------------------------------------

\* the query names one of the advice keywords
AsksAdvice(s) == HasAny(advice_keywords, Lower(Chars(s.query)))

\* the plan text set one of the two data flags
PlanSetDataFlag(s) ==
  \/ PlanSays("Portfolio Data Needed: YES", s.plan)
  \/ PlanSays("Market Data Needed: YES", s.plan)

C32_FallbackWitness ==
  /\ trace = <<"planner">>
  /\ ~PlanSetDataFlag(state)
  /\ state.needs_portfolio \/ state.needs_market

\* ------------------------------------------------------------------------
\* The conversation history of a request
\* ------------------------------------------------------------------------

\* the query uses one of the vague pronouns
UsesVaguePronoun(query) ==
  \E n \in DOMAIN vague_pronouns : Has(vague_pronouns[n], Strip(Lower(Chars(query))))

\* the request came with a history and its query uses a vague pronoun
FollowUp ==
  /\ request.phase = "answered"
  /\ request.conversation_history # <<>>
  /\ UsesVaguePronoun(request.query)

\* C33: the history supplied with the request is the one the planner and the
\* validator read: a request with a non-empty history whose query uses a vague
\* pronoun completes the workflow, without a clarification request.
C33_HistoryReachesWorkflow ==
  FollowUp => request.raised = None

\* the follow-up request was answered with the failure of the call: run_workflow
\* takes no conversation_history
C33_HistoryRejected ==
  /\ FollowUp
  /\ request.raised = Some(UnexpectedKeyword)

\* the state a direct call of run_workflow starts from, and every state after it,
\* has no conversation history for the nodes to read
C33_NoHistoryInState ==
  "conversation_history" \notin DOMAIN state

\* ------------------------------------------------------------------------
\* The order of the validator's stages
\* ------------------------------------------------------------------------

Ambiguous(s) == detect_ambiguity(s.query, s.conversation_history).is_ambiguous

Insufficient(s) ==
  \E r \in check_data_sufficiency(s.query, s.portfolio_data, s.market_data) : ~r.is_sufficient

Hallucinates(s) ==
  \E f \in enhanced_fact_check(s.response, s.portfolio_data, s.market_data) : f.has_hallucinations

\* the response is invalid or its confidence is below the caveat threshold
LowConfidence(s) ==
  ~Validation(s).is_valid \/ ConfBelow(Validation(s).confidence, CaveatThreshold)

\* the number of footer rules in cs
Footers(cs) ==
  Cardinality({ i \in 1..Len(cs) :
                  /\ i + Len(Spell["\n\n---\n"]) - 1 <= Len(cs)
                  /\ SubSeq(cs, i, i + Len(Spell["\n\n---\n"]) - 1) = Spell["\n\n---\n"] })

\* t is s with the hallucination warning appended to the response
WarningAppended(s, t) ==
  StartsWith(Chars(t.response),
             Chars(s.response \o <<"\n\n---\n", "Warning: Response validation detected potential issues:\n">>))

\* C34: the validator applies ambiguity, data sufficiency, hallucination check
\* and confidence scoring in this order and the first stage that fires decides
\* what is returned; later stages leave no trace in it, and at most one warning
\* or caveat footer is appended.
C34_FirstStageDecides ==
  [][ (trace = <<>> /\ trace' = <<"validator">>) =>
        /\ Ambiguous(state) =>
             /\ state' = Update(state, [ needs_clarification |-> TRUE,
                                         clarification_message |->
                                           detect_ambiguity(state.query, state.conversation_history).message,
                                         validated |-> FALSE ])
        /\ (~Ambiguous(state) /\ Insufficient(state)) =>
             \E r \in check_data_sufficiency(state.query, state.portfolio_data, state.market_data) :
               state' = Update(state, [ response |-> r.message, validated |-> TRUE,
                                        needs_clarification |-> FALSE ])
        /\ (~Ambiguous(state) /\ ~Insufficient(state) /\ Hallucinates(state)) =>
             /\ WarningAppended(state, state')
             /\ Footers(Chars(state'.response)) = Footers(Chars(state.response)) + 1
        /\ (~Ambiguous(state) /\ ~Insufficient(state) /\ ~Hallucinates(state)) =>
             /\ ScoringDecided(state, state')
             /\ FooterAppended(state, state') <=> LowConfidence(state)
        /\ Footers(Chars(state'.response)) <= Footers(Chars(state.response)) + 1 ]_wfvars

\* the validator has returned a warning for an answer that the confidence stage
\* would have given a caveat too: the warning is the only footer
C34_Witness ==
  /\ trace = <<"validator">>
  /\ \E r \in ValidatorAnswers :
       /\ WarningAppended([response |-> r], state)
       /\ LowConfidence([state EXCEPT !.response = r])
       /\ Footers(Chars(state.response)) = 1

\* an ambiguous query about data that is missing: the clarification request is
\* returned and the answer is left as it was
C34_AmbiguityFirst ==
  /\ trace = <<"validator">>
  /\ Ambiguous(state)
  /\ Insufficient(state)
  /\ state.needs_clarification
  /\ state.response \in ValidatorAnswers

\* ------------------------------------------------------------------------
\* The agent-activity flags
\* ------------------------------------------------------------------------

\* agent_activity of the try branch of WorkflowService.execute_query for the
\* state run_workflow returned
agent_activity(final_state) ==
  [ planner_used |-> TRUE,
    portfolio_used |-> Get(final_state, "needs_portfolio", FALSE),
    market_used |-> Get(final_state, "needs_market", FALSE),
    collaboration_used |-> "collaboration_findings" \in DOMAIN final_state,
    validator_used |-> Get(final_state, "validated", FALSE) ]

\* node n has executed in the run
Executed(n) == \E i \in DOMAIN trace : trace[i] = n

\* every request the service answers is answered from the except branch: no node
\* has executed, and the envelope has every flag False
NothingRanNothingReported ==
  request.phase \in {"executed", "answered"} =>
    /\ trace = <<>>
    /\ request.raised # None
    /\ request.backend = "backend" /\ request.phase = "executed" =>
         request.envelope.value.agent_activity = NoAgentActivity

\* the flags the try branch would compute from the state of a finished run of
\* run_workflow(query, client_id) are those of the nodes that executed
FlagsOfFinishedRun ==
  active = {"END"} =>
    /\ agent_activity(state).portfolio_used = Executed("portfolio_agent")
    /\ agent_activity(state).market_used = Executed("market_agent")
    /\ agent_activity(state).validator_used = Executed("validator")
    /\ ~agent_activity(state).collaboration_used

\* ------------------------------------------------------------------------
\* The session service (src/backend/services/session_service.py)
\* ------------------------------------------------------------------------

\* MAX_CONVERSATION_HISTORY, the default of SessionService.__init__
max_conversation_history == 10

\* the session ids uuid4 may return
SessionIds == {"session-a", "session-b"}

\* the length of the conversation the callers' lists are cut from
MaxMessages == 13

\* the hours the clock runs
MaxClock == 2

\* a conversation: the i-th message carries the i-th text
Conversation ==
  [ i \in 1..MaxMessages |->
      [ role |-> IF i % 2 = 1 THEN "user" ELSE "assistant", content |-> i ] ]

\* the lists passed to update_session: stretches of the conversation, the empty
\* list and lists of more than ten messages among them
PassedHistories ==
  { SubSeq(Conversation, first, last) :
      first \in {1, 2}, last \in {0, 9, 10, 11, MaxMessages} }

\* seq[-n:]
TailSlice(seq, n) ==
  IF n = 0 \/ n >= Len(seq) THEN seq ELSE SubSeq(seq, Len(seq) - n + 1, Len(seq))

\* dict with key k set to v, and with the keys of gone deleted
Put(dict, k, v) == [ x \in DOMAIN dict \cup {k} |-> IF x = k THEN v ELSE dict[x] ]

Without(dict, gone) == [ x \in DOMAIN dict \ gone |-> dict[x] ]

\* create_session(client_id) when uuid4 returns session_id
create_session(stored, session_id, client_id, time) ==
  Put(stored, session_id,
      [ session_id |-> session_id, client_id |-> client_id, conversation_history |-> <<>>,
        created_at |-> time, last_activity |-> time ])

\* update_session storing the list as it is passed
update_session_keeping_all(stored, session_id, conversation_history, time) ==
  IF session_id \notin DOMAIN stored THEN stored
  ELSE Put(stored, session_id,
           [ stored[session_id] EXCEPT !.conversation_history = conversation_history,
                                       !.last_activity = time ])

\* update_session(session_id, conversation_history)
update_session(stored, session_id, conversation_history, time) ==
  IF session_id \notin DOMAIN stored THEN stored
  ELSE Put(stored, session_id,
           [ stored[session_id] EXCEPT
               !.conversation_history = TailSlice(conversation_history, max_conversation_history),
               !.last_activity = time ])

\* delete_session(session_id)
delete_session(stored, session_id) == Without(stored, {session_id})

\* cleanup_old_sessions(hours)
cleanup_old_sessions(stored, hours, time) ==
  Without(stored, { sid \in DOMAIN stored : stored[sid].last_activity < time - hours })

SessionsInit ==
  /\ WorkflowIdle
  /\ TeamIdle
  /\ BatchIdle
  /\ request = NoRequest
  /\ BackendIdle
  /\ NotCleaning

CreateSession ==
  /\ \E session_id \in SessionIds \ DOMAIN sessions, client_id \in ClientIds :
       sessions' = create_session(sessions, session_id, client_id, now)
  /\ UNCHANGED <<wfvars, teamvars, batchvars, request, cleanvars, now, active_connections, sockets>>

\* the call update_session(session_id, conversation_history)
UpdateSessionCall(session_id, conversation_history) ==
  /\ sessions' = update_session(sessions, session_id, conversation_history, now)
  /\ UNCHANGED <<wfvars, teamvars, batchvars, request, cleanvars, now, active_connections, sockets>>

UpdateSession ==
  \E session_id \in SessionIds, conversation_history \in PassedHistories :
    UpdateSessionCall(session_id, conversation_history)

DeleteSession ==
  /\ \E session_id \in SessionIds : sessions' = delete_session(sessions, session_id)
  /\ UNCHANGED <<wfvars, teamvars, batchvars, request, cleanvars, now, active_connections, sockets>>

CleanupOldSessions ==
  /\ \E hours \in 1..MaxClock : sessions' = cleanup_old_sessions(sessions, hours, now)
  /\ UNCHANGED <<wfvars, teamvars, batchvars, request, cleanvars, now, active_connections, sockets>>

\* an hour passes
HourPasses ==
  /\ now < MaxClock
  /\ now' = now + 1
  /\ UNCHANGED <<wfvars, teamvars, batchvars, request, cleanvars, sessions, active_connections, sockets>>

SessionsNext ==
  CreateSession \/ UpdateSession \/ DeleteSession \/ CleanupOldSessions \/ HourPasses

SessionsSpec == SessionsInit /\ [][SessionsNext]_vars

\* the last ten elements of seq, in their order
LastTen(seq) ==
  [ i \in 1..(IF Len(seq) < 10 THEN Len(seq) ELSE 10) |->
      seq[i + (IF Len(seq) < 10 THEN 0 ELSE Len(seq) - 10)] ]

\* C36: after any sequence of create_session, update_session, delete_session and
\* cleanup_old_sessions every stored conversation history has at most 10
\* messages, and right after update_session the history of the session is the
\* last 10 messages of the list passed in, in the same order.
C36_HistoryBounded ==
  /\ [](\A sid \in DOMAIN sessions : Len(sessions[sid].conversation_history) <= 10)
  /\ [][ \A sid \in DOMAIN sessions, passed \in PassedHistories :
           UpdateSessionCall(sid, passed) =>
             sessions'[sid].conversation_history = LastTen(passed) ]_vars

\* a session stores ten messages cut from a longer list: the first one kept is
\* not the first one passed
C36_Witness ==
  \E sid \in DOMAIN sessions :
    /\ Len(sessions[sid].conversation_history) = 10
    /\ sessions[sid].conversation_history[1].content = MaxMessages - 9
    /\ sessions[sid].conversation_history[10].content = MaxMessages

\* ------------------------------------------------------------------------
\* The WebSocket connection manager
\* (src/backends/langgraph_backend/app/api/routes/websocket.py)
\* ------------------------------------------------------------------------

\* the status messages a websocket is sent at most
MaxStatus == 2

\* ConnectionManager.disconnect(session_id)
disconnect(connections, session_id) == Without(connections, {session_id})

\* websocket_endpoint is entered for a new connection under session_id and waits
\* in manager.connect for websocket.accept()
EndpointOpens ==
  /\ \E websocket \in Sockets, session_id \in SessionIds :
       /\ sockets[websocket].phase = "new"
       /\ sockets' = [ sockets EXCEPT ![websocket] =
                         [ session_id |-> session_id, phase |-> "accepting", received |-> 0 ] ]
  /\ UNCHANGED <<wfvars, teamvars, batchvars, request, cleanvars, sessions, now, active_connections>>

\* ConnectionManager.connect after the accept: the websocket is stored under its
\* session id, and the endpoint waits in receive_text
Connect ==
  /\ \E websocket \in Sockets :
       /\ sockets[websocket].phase = "accepting"
       /\ active_connections' = Put(active_connections, sockets[websocket].session_id, websocket)
       /\ sockets' = [ sockets EXCEPT ![websocket].phase = "open" ]
  /\ UNCHANGED <<wfvars, teamvars, batchvars, request, cleanvars, sessions, now>>

\* the client closes: receive_text raises WebSocketDisconnect and the endpoint
\* calls manager.disconnect(session_id)
ClientDisconnects ==
  /\ \E websocket \in Sockets :
       /\ sockets[websocket].phase = "open"
       /\ active_connections' = disconnect(active_connections, sockets[websocket].session_id)
       /\ sockets' = [ sockets EXCEPT ![websocket].phase = "closed" ]
  /\ UNCHANGED <<wfvars, teamvars, batchvars, request, cleanvars, sessions, now>>

\* ConnectionManager.send_status(session_id, ...): the message goes to the
\* websocket stored under the session id, if there is one; a send that fails
\* removes the entry
SendStatus ==
  /\ \E session_id \in SessionIds :
       IF session_id \notin DOMAIN active_connections
       THEN UNCHANGED <<active_connections, sockets>>
       ELSE \E websocket \in {active_connections[session_id]} :
              IF sockets[websocket].phase = "open"
              THEN /\ sockets[websocket].received < MaxStatus
                   /\ sockets' = [ sockets EXCEPT ![websocket].received = @ + 1 ]
                   /\ UNCHANGED active_connections
              ELSE /\ active_connections' = disconnect(active_connections, session_id)
                   /\ UNCHANGED sockets
  /\ UNCHANGED <<wfvars, teamvars, batchvars, request, cleanvars, sessions, now>>

ConnectionsNext == EndpointOpens \/ Connect \/ ClientDisconnects \/ SendStatus

ConnectionsSpec == SessionsInit /\ [][ConnectionsNext]_vars

\* websocket is the connection registered for its session id
Registered(connections, websocket) ==
  /\ sockets[websocket].session_id \in DOMAIN connections
  /\ connections[sockets[websocket].session_id] = websocket

\* C37: a connection registered for a session id stays registered until that
\* same connection disconnects: a step that leaves the connection open leaves it
\* registered.
C37_RegisteredUntilOwnDisconnect ==
  [][ \A websocket \in Sockets :
        (Registered(active_connections, websocket) /\ sockets'[websocket].phase = "open")
          => Registered(active_connections', websocket) ]_vars

\* a second connection opened under the session id of a first one, the first
\* one disconnected: the second is open, is not registered and has received no
\* status message, and none can reach it
C37_SecondDropped ==
  \E first, second \in Sockets :
    /\ first # second
    /\ sockets[first].session_id = sockets[second].session_id
    /\ sockets[first].phase = "closed"
    /\ sockets[second].phase = "open"
    /\ sockets[second].received = 0
    /\ sockets[second].session_id \notin DOMAIN active_connections

\* ------------------------------------------------------------------------
\* Marker stripping: the clean-up loop of run_fast_6agent_analysis and
\* clean_debug_markers (src/src/agents/autogen/report_helpers.py)
\* ------------------------------------------------------------------------

\* debug_markers of clean_debug_markers
helper_markers ==
  debug_markers \o << "DEBUG:", "TODO:", "[PLACEHOLDER]" >>

\* str.replace(old, new): the occurrences replaced left to right, the text put
\* in is not searched again
RECURSIVE Replace(_, _, _)
Replace(cs, old, new) ==
  With(Find(cs, old), LAMBDA i :
    IF i = 0 THEN cs
    ELSE SubSeq(cs, 1, i - 1) \o new \o Replace(SubSeq(cs, i + Len(old), Len(cs)), old, new))

\* for marker in debug_markers[n:]: cleaned = cleaned.replace(marker, "")
RECURSIVE ReplaceMarkersFrom(_, _)
ReplaceMarkersFrom(cleaned, n) ==
  IF n > Len(helper_markers) THEN cleaned
  ELSE ReplaceMarkersFrom(Replace(cleaned, Spell[helper_markers[n]], <<>>), n + 1)

\* '\n'.join(line.rstrip() for line in cleaned.split('\n'))
RECURSIVE RStripLines(_)
RStripLines(cleaned) ==
  With(Find(cleaned, <<"\n">>), LAMBDA i :
    IF i = 0 THEN RStrip(cleaned)
    ELSE RStrip(SubSeq(cleaned, 1, i - 1)) \o <<"\n">>
         \o RStripLines(SubSeq(cleaned, i + 1, Len(cleaned))))

\* while '\n\n\n' in cleaned: cleaned = cleaned.replace('\n\n\n', '\n\n')
RECURSIVE CollapseBlankLines(_)
CollapseBlankLines(cleaned) ==
  IF Contains(<<"\n", "\n", "\n">>, cleaned)
  THEN CollapseBlankLines(Replace(cleaned, <<"\n", "\n", "\n">>, <<"\n", "\n">>))
  ELSE cleaned

\* clean_debug_markers(text)
clean_debug_markers(text) ==
  Strip(CollapseBlankLines(RStripLines(ReplaceMarkersFrom(text, 1))))

\* the texts stripped: a head, a middle and a tail, which put together hold
\* markers, markers inside markers, blank lines and trailing spaces
CleanHeads == { <<>>, <<"Hold.  ">>, <<"FINAL_ANALYSIS_">>, <<"DE">> }

CleanMiddles ==
  { <<"RISK_ANALYSIS_COMPLETE">>, <<"DATA_ANALYSIS_COMPLETE">>, <<"TODO:">>, <<" \n\n\n\n">> }

CleanTails == { <<>>, <<"COMPLETE">>, <<"BUG: check">>, <<" done \n">> }

\* the passes made over a text
MaxPasses == 2

CleanInit ==
  /\ WorkflowIdle
  /\ TeamIdle
  /\ BatchIdle
  /\ request = NoRequest
  /\ BackendIdle
  /\ \E head \in CleanHeads, middle \in CleanMiddles, tail \in CleanTails :
       cleaning = [ by |-> "", text |-> Chars(head \o middle \o tail), passes |-> 0,
                    changed |-> FALSE ]

\* the text is handed to one of the two functions, or to the same one again
Pass(by, cleaned) ==
  /\ cleaning.by \in {"", by}
  /\ cleaning.passes < MaxPasses
  /\ cleaning' = [ by |-> by, text |-> cleaned, passes |-> cleaning.passes + 1,
                   changed |-> cleaned # cleaning.text ]
  /\ UNCHANGED <<wfvars, teamvars, batchvars, request, backendvars>>

\* lines 255-266 of run_fast_6agent_analysis on final_report
CleanUpLoop == Pass("run_fast_6agent_analysis", CleanReport(cleaning.text))

CleanDebugMarkers == Pass("clean_debug_markers", clean_debug_markers(cleaning.text))

CleanNext == CleanUpLoop \/ CleanDebugMarkers

CleanSpec == CleanInit /\ [][CleanNext]_vars

\* the markers the function that strips the text lists
ListedMarkers ==
  IF cleaning.by = "clean_debug_markers" THEN Range(helper_markers) ELSE Range(debug_markers)

\* C38: stripping is complete and idempotent: after one pass the text contains
\* none of the listed markers, and a second pass changes nothing, for the
\* clean-up loop of run_fast_6agent_analysis and for clean_debug_markers.
C38_StrippingComplete ==
  /\ cleaning.passes >= 1 => \A marker \in ListedMarkers : ~Has(marker, cleaning.text)
  /\ cleaning.passes >= 2 => ~cleaning.changed

\* one pass of the clean-up loop has left a marker in the text
C38_LoopLeavesMarker ==
  /\ cleaning.by = "run_fast_6agent_analysis"
  /\ cleaning.passes = 1
  /\ Has("FINAL_ANALYSIS_COMPLETE", cleaning.text)

\* one pass of clean_debug_markers has left a marker in the text
C38_HelperLeavesMarker ==
  /\ cleaning.by = "clean_debug_markers"
  /\ cleaning.passes = 1
  /\ \E marker \in Range(helper_markers) : Has(marker, cleaning.text)

\* a second pass has changed the text
C38_SecondPassChanges == cleaning.passes = 2 /\ cleaning.changed

====
